---- MODULE Spec2Model ----
(***************************************************************************)
(* Content-moderation scanning engine of sidlabsBackend                    *)
(* (src/src/services/moderationService.js).                                *)
(*                                                                         *)
(* Text is a TLA+ string; positions are 0-based as in JavaScript, an end   *)
(* position is exclusive, and -1 stands for "no match" / "not found".      *)
(* A score is a JavaScript double, written here in thousandths (0.8 is     *)
(* 800); a value one above or below a multiple of 100 stands for the       *)
(* double one rounding error above or below that decimal (601 is           *)
(* 0.6000000000000001, 799 is 0.7999999999999999).                         *)
(***************************************************************************)
EXTENDS Integers, Sequences, FiniteSets, TLC

-----------------------------------------------------------------------------
(* Characters and strings                                                  *)

Digits == {"0", "1", "2", "3", "4", "5", "6", "7", "8", "9"}

LowerAlphabet == "abcdefghijklmnopqrstuvwxyz"

UpperAlphabet == "ABCDEFGHIJKLMNOPQRSTUVWXYZ"

LowerLetters == {SubSeq(LowerAlphabet, i, i) : i \in 1..Len(LowerAlphabet)}

UpperLetters == {SubSeq(UpperAlphabet, i, i) : i \in 1..Len(UpperAlphabet)}

Letters == LowerLetters \cup UpperLetters

AlphaNum == Letters \cup Digits

\* \w of a JavaScript regular expression
WordChars == AlphaNum \cup {"_"}

\* \s of a JavaScript regular expression (the ASCII part)
Whitespace == {" ", "\t", "\n"}

\* s[i], "" outside the string
CharAt(s, i) == IF i < 0 \/ i >= Len(s) THEN "" ELSE SubSeq(s, i + 1, i + 1)

\* s.substring(a, b) for 0 <= a <= b
Substring(s, a, b) == SubSeq(s, a + 1, IF b > Len(s) THEN Len(s) ELSE b)

ToLowerChar(c) ==
  IF c \in UpperLetters
    THEN LET i == CHOOSE k \in 1..Len(UpperAlphabet) : SubSeq(UpperAlphabet, k, k) = c
         IN  SubSeq(LowerAlphabet, i, i)
    ELSE c

RECURSIVE toLowerCase(_)
toLowerCase(s) ==
  IF Len(s) = 0 THEN ""
  ELSE ToLowerChar(SubSeq(s, 1, 1)) \o toLowerCase(SubSeq(s, 2, Len(s)))

\* s.startsWith(p, i)
StartsWithAt(s, p, i) == i >= 0 /\ i + Len(p) <= Len(s) /\ SubSeq(s, i + 1, i + Len(p)) = p

\* case-insensitive literal of a regular expression with the i flag
StartsWithAtCI(s, p, i) ==
  i >= 0 /\ i + Len(p) <= Len(s) /\ toLowerCase(SubSeq(s, i + 1, i + Len(p))) = p

\* s.indexOf(p)
indexOf(s, p) ==
  LET hits == {i \in 0..(Len(s) - Len(p)) : StartsWithAt(s, p, i)}
  IN  IF hits = {} THEN -1 ELSE CHOOSE i \in hits : \A j \in hits : i <= j

\* s.includes(p)
includes(s, p) == \E i \in 0..(Len(s) - Len(p)) : StartsWithAt(s, p, i)

\* \b at position i: exactly one of s[i-1], s[i] is a word character
WordBoundary(s, i) == (CharAt(s, i - 1) \in WordChars) # (CharAt(s, i) \in WordChars)

\* every one of the n characters from i is in class
AllIn(s, i, n, class) == \A k \in 0..(n - 1) : CharAt(s, i + k) \in class

\* the end of the longest run of characters of class that starts at i
RunEnd(s, i, class) ==
  CHOOSE e \in i..Len(s) :
    /\ CharAt(s, e) \notin class
    /\ \A k \in i..(e - 1) : CharAt(s, k) \in class

MaxOf(S) == CHOOSE x \in S : \A y \in S : y <= x

MinOf(S) == CHOOSE x \in S : \A y \in S : x <= y

\* String.prototype.match with a g-flag expression: the matches from left to
\* right, each search resuming where the previous match ended. ends[i+1] is
\* the end of the match that starts at position i, or -1. (No expression of
\* the service matches the empty string.)
RECURSIVE MatchesFrom(_, _, _)
MatchesFrom(s, ends, i) ==
  IF i >= Len(s) THEN <<>>
  ELSE IF ends[i + 1] > i
    THEN <<Substring(s, i, ends[i + 1])>> \o MatchesFrom(s, ends, ends[i + 1])
    ELSE MatchesFrom(s, ends, i + 1)

-----------------------------------------------------------------------------
(* JavaScript number arithmetic on the scores (IEEE-754 doubles)           *)

\* w * n where w is a weight and n a match count. The products that are not
\* the exact decimal: 0.1*3 = 0.30000000000000004, 0.1*6 = 0.6000000000000001,
\* 0.1*7 = 0.7000000000000001, 0.3*3 = 0.8999999999999999. Above 1.0 the
\* rounding is immaterial: every score is capped by Math.min(score, 1.0) and
\* compared with thresholds below 1.
FMul(w, n) ==
  CASE w = 100 /\ n \in {3, 6, 7} -> w * n + 1
    [] w = 300 /\ n = 3 -> 899
    [] OTHER -> w * n

\* a + b. The sums up to 1.0 that are not the sum of the two codes:
\* 0.2+0.4 = 0.6000000000000001, 0.7+0.1 = 0.7999999999999999,
\* 0.6000000000000001+0.2 = 0.8, 0.6+0.30000000000000004 = 0.9,
\* 0.3+0.7000000000000001 = 1.0, 0.6000000000000001+0.4 = 1.0.
FAdd(a, b) ==
  CASE {a, b} = {200, 400} -> 601
    [] a = 700 /\ b = 100 -> 799
    [] a = 601 /\ b = 200 -> 800
    [] a = 600 /\ b = 301 -> 900
    [] a = 300 /\ b = 701 -> 1000
    [] a = 601 /\ b = 400 -> 1000
    [] OTHER -> a + b

\* Math.min(a, b)
MathMin(a, b) == IF a < b THEN a ELSE b

-----------------------------------------------------------------------------
(* PHI_PATTERNS: for each expression, the end of its match at position i   *)

PhoneSeparators == {"-", ".", " ", "\t", "\n"}

\* A variant of the phone expression whose separators are mandatory,
\* /\b\d{3}[-.\s]\d{3}[-.\s]\d{4}\b/
PhoneEndWithSeparators(s, i) ==
  IF /\ WordBoundary(s, i)
     /\ AllIn(s, i, 3, Digits) /\ CharAt(s, i + 3) \in PhoneSeparators
     /\ AllIn(s, i + 4, 3, Digits) /\ CharAt(s, i + 7) \in PhoneSeparators
     /\ AllIn(s, i + 8, 4, Digits) /\ WordBoundary(s, i + 12)
    THEN i + 12 ELSE -1

\* /\b\d{3}[-.\s]?\d{3}[-.\s]?\d{4}\b/
PhoneEnd(s, i) ==
  IF ~(WordBoundary(s, i) /\ AllIn(s, i, 3, Digits)) THEN -1
  ELSE LET b == IF CharAt(s, i + 3) \in PhoneSeparators THEN i + 4 ELSE i + 3
       IN  IF ~AllIn(s, b, 3, Digits) THEN -1
           ELSE LET d == IF CharAt(s, b + 3) \in PhoneSeparators THEN b + 4 ELSE b + 3
                IN  IF AllIn(s, d, 4, Digits) /\ WordBoundary(s, d + 4) THEN d + 4 ELSE -1

\* /\b\d{3}-\d{2}-\d{4}\b/
SsnEnd(s, i) ==
  IF /\ WordBoundary(s, i)
     /\ AllIn(s, i, 3, Digits) /\ CharAt(s, i + 3) = "-"
     /\ AllIn(s, i + 4, 2, Digits) /\ CharAt(s, i + 6) = "-"
     /\ AllIn(s, i + 7, 4, Digits) /\ WordBoundary(s, i + 11)
    THEN i + 11 ELSE -1

EmailLocalChars == AlphaNum \cup {".", "_", "%", "+", "-"}

EmailDomainChars == AlphaNum \cup {".", "-"}

\* /\b[A-Z0-9._%+-]+@[A-Z0-9.-]+\.[A-Z]{2,}\b/i : the local part is the whole
\* run before "@"; the domain part is greedy, so the last "." of the domain
\* run that is followed by two or more letters ending at a word boundary wins.
EmailEnd(s, i) ==
  IF ~WordBoundary(s, i) THEN -1
  ELSE LET at == RunEnd(s, i, EmailLocalChars)
       IN  IF at = i \/ CharAt(s, at) # "@" THEN -1
           ELSE LET de   == RunEnd(s, at + 1, EmailDomainChars)
                    dots == {j \in (at + 2)..(de - 1) :
                               /\ CharAt(s, j) = "."
                               /\ RunEnd(s, j + 1, Letters) >= j + 3
                               /\ WordBoundary(s, RunEnd(s, j + 1, Letters))}
                IN  IF dots = {} THEN -1 ELSE RunEnd(s, MaxOf(dots) + 1, Letters)

\* /\b\d{5}(?:-\d{4})?\b/
ZipEnd(s, i) ==
  IF ~(WordBoundary(s, i) /\ AllIn(s, i, 5, Digits)) THEN -1
  ELSE IF CharAt(s, i + 5) = "-" /\ AllIn(s, i + 6, 4, Digits) /\ WordBoundary(s, i + 10)
    THEN i + 10
  ELSE IF WordBoundary(s, i + 5) THEN i + 5
  ELSE -1

\* /\b\d{1,2}\/\d{1,2}\/\d{2,4}\b/
DateEnd(s, i) ==
  IF ~(WordBoundary(s, i) /\ CharAt(s, i) \in Digits) THEN -1
  ELSE LET a == IF CharAt(s, i + 1) \in Digits THEN i + 2 ELSE i + 1
       IN  IF ~(CharAt(s, a) = "/" /\ CharAt(s, a + 1) \in Digits) THEN -1
           ELSE LET b == IF CharAt(s, a + 2) \in Digits THEN a + 3 ELSE a + 2
                IN  IF CharAt(s, b) # "/" THEN -1
                    ELSE LET ns == {n \in 2..4 : AllIn(s, b + 1, n, Digits)
                                                  /\ WordBoundary(s, b + 1 + n)}
                         IN  IF ns = {} THEN -1 ELSE b + 1 + MaxOf(ns)

AddressKeywords ==
  {"street", "st", "st.", "road", "rd", "rd.", "avenue", "ave", "ave.",
   "drive", "dr", "dr.", "lane", "ln", "ln.", "boulevard", "blvd", "blvd."}

\* /\b(?:street|st\.?|road|...|blvd\.?)\s+[\w\s]+\d+/i : after the keyword, a
\* whitespace character, then the run of [\w\s]; \s+ and [\w\s]+ are greedy
\* and each keeps at least one character, so the match ends after the last
\* digit of the run, which must lie two or more characters into it.
AddressEnd(s, i) ==
  IF ~WordBoundary(s, i) THEN -1
  ELSE LET ps == {i + Len(k) : k \in {w \in AddressKeywords :
                     StartsWithAtCI(s, w, i) /\ CharAt(s, i + Len(w)) \in Whitespace}}
       IN  IF ps = {} THEN -1
           ELSE LET p  == MinOf(ps)
                    r  == RunEnd(s, p, WordChars \cup Whitespace)
                    ds == {q \in (p + 2)..(r - 1) : CharAt(s, q) \in Digits}
                IN  IF ds = {} THEN -1 ELSE MaxOf(ds) + 1

MedicalKeywords == {"medical record", "patient id", "mrn", "medical record number"}

\* /\b(?:medical record|patient id|mrn|medical record number)\s*:?\s*\d+/i
MedicalRecordEnd(s, i) ==
  IF ~WordBoundary(s, i) THEN -1
  ELSE LET endAfter(p) ==
             LET a == RunEnd(s, p, Whitespace)
                 b == IF CharAt(s, a) = ":" THEN a + 1 ELSE a
                 c == RunEnd(s, b, Whitespace)
                 d == RunEnd(s, c, Digits)
             IN  IF d > c THEN d ELSE -1
           es == {endAfter(i + Len(k)) : k \in {w \in MedicalKeywords : StartsWithAtCI(s, w, i)}}
                   \ {-1}
       IN  IF es = {} THEN -1 ELSE MinOf(es)

\* text.match(pattern.regex) for each entry of PHI_PATTERNS (<<>> for null)
PhoneMatches(s) == MatchesFrom(s, [i \in 1..Len(s) |-> PhoneEnd(s, i - 1)], 0)

SsnMatches(s) == MatchesFrom(s, [i \in 1..Len(s) |-> SsnEnd(s, i - 1)], 0)

EmailMatches(s) == MatchesFrom(s, [i \in 1..Len(s) |-> EmailEnd(s, i - 1)], 0)

ZipMatches(s) == MatchesFrom(s, [i \in 1..Len(s) |-> ZipEnd(s, i - 1)], 0)

DateMatches(s) == MatchesFrom(s, [i \in 1..Len(s) |-> DateEnd(s, i - 1)], 0)

AddressMatches(s) == MatchesFrom(s, [i \in 1..Len(s) |-> AddressEnd(s, i - 1)], 0)

MedicalRecordMatches(s) == MatchesFrom(s, [i \in 1..Len(s) |-> MedicalRecordEnd(s, i - 1)], 0)

PHI_PATTERNS(s) ==
  << [type |-> "phone",          weight |-> 800,  matches |-> PhoneMatches(s)],
     [type |-> "ssn",            weight |-> 1000, matches |-> SsnMatches(s)],
     [type |-> "email",          weight |-> 600,  matches |-> EmailMatches(s)],
     [type |-> "zip",            weight |-> 500,  matches |-> ZipMatches(s)],
     [type |-> "date",           weight |-> 400,  matches |-> DateMatches(s)],
     [type |-> "address",        weight |-> 700,  matches |-> AddressMatches(s)],
     [type |-> "medical_record", weight |-> 900,  matches |-> MedicalRecordMatches(s)] >>

-----------------------------------------------------------------------------
(* SALES_KEYWORDS, SPAM_PATTERNS and the link expressions                  *)

SALES_KEYWORDS ==
  << "buy now", "purchase", "special offer", "limited time", "act now",
     "call now", "dm me", "message me", "contact me for", "for sale",
     "discount", "deal", "cheap", "affordable", "best price", "lowest price" >>

\* A variant of repeatedChars that needs six of the same character, /(.)\1{5,}/
RepeatedCharsEndSix(s, i) ==
  LET e == RunEnd(s, i, {CharAt(s, i)})
  IN  IF CharAt(s, i) # "\n" /\ e - i >= 6 THEN e ELSE -1

\* /(.)\1{4,}/ : five or more of the same character ("." matches no newline)
RepeatedCharsEnd(s, i) ==
  LET e == RunEnd(s, i, {CharAt(s, i)})
  IN  IF CharAt(s, i) # "\n" /\ e - i >= 5 THEN e ELSE -1

\* "https?:\/\/" at position i, case-insensitive: the end of it, or -1
SchemeEnd(s, i) ==
  IF ~StartsWithAtCI(s, "http", i) THEN -1
  ELSE LET p == IF ToLowerChar(CharAt(s, i + 4)) = "s" THEN i + 5 ELSE i + 4
       IN  IF StartsWithAt(s, "://", p) THEN p + 3 ELSE -1

LinkSpamPhrases == {"click here", "visit", "check out", "link in bio"}

\* /\b(?:click here|visit|check out|link in bio)\s+https?:\/\//i
LinkSpamEnd(s, i) ==
  IF ~WordBoundary(s, i) THEN -1
  ELSE LET es == {SchemeEnd(s, RunEnd(s, i + Len(k), Whitespace)) :
                    k \in {w \in LinkSpamPhrases :
                             StartsWithAtCI(s, w, i) /\ CharAt(s, i + Len(w)) \in Whitespace}}
                   \ {-1}
       IN  IF es = {} THEN -1 ELSE MinOf(es)

\* A variant of the expression that needs the scheme: /(?:www\.|https?:\/\/)/i
UrlsEndWithScheme(s, i) ==
  IF StartsWithAtCI(s, "www.", i) THEN i + 4 ELSE SchemeEnd(s, i)

\* /(?:www\.|http)/i
UrlsEnd(s, i) ==
  IF StartsWithAtCI(s, "www.", i) \/ StartsWithAtCI(s, "http", i) THEN i + 4 ELSE -1

ScamWords == {"free", "win", "prize", "congratulations"}

ScamVerbs == {"click", "visit", "call"}

\* /\b(free|win|prize|congratulations)\s+(?:click|visit|call)/i
ScamKeywordsEnd(s, i) ==
  IF ~WordBoundary(s, i) THEN -1
  ELSE LET es == UNION {
                   LET v == RunEnd(s, i + Len(k), Whitespace)
                   IN  {v + Len(w) : w \in {x \in ScamVerbs : StartsWithAtCI(s, x, v)}} :
                   k \in {w \in ScamWords :
                            StartsWithAtCI(s, w, i) /\ CharAt(s, i + Len(w)) \in Whitespace}}
       IN  IF es = {} THEN -1 ELSE MinOf(es)

RepeatedCharsMatches(s) == MatchesFrom(s, [i \in 1..Len(s) |-> RepeatedCharsEnd(s, i - 1)], 0)

LinkSpamMatches(s) == MatchesFrom(s, [i \in 1..Len(s) |-> LinkSpamEnd(s, i - 1)], 0)

UrlsMatches(s) == MatchesFrom(s, [i \in 1..Len(s) |-> UrlsEnd(s, i - 1)], 0)

ScamKeywordsMatches(s) == MatchesFrom(s, [i \in 1..Len(s) |-> ScamKeywordsEnd(s, i - 1)], 0)

SPAM_PATTERNS(s) ==
  << [type |-> "repeated_chars", weight |-> 300, matches |-> RepeatedCharsMatches(s)],
     [type |-> "link_spam",      weight |-> 700, matches |-> LinkSpamMatches(s)],
     [type |-> "urls",           weight |-> 500, matches |-> UrlsMatches(s)],
     [type |-> "scam_keywords",  weight |-> 800, matches |-> ScamKeywordsMatches(s)] >>

\* the end of the longest run of non-whitespace characters that starts at i
NonSpaceRunEnd(s, i) ==
  CHOOSE e \in i..Len(s) :
    /\ (e = Len(s) \/ CharAt(s, e) \in Whitespace)
    /\ \A k \in i..(e - 1) : CharAt(s, k) \notin Whitespace

\* /https?:\/\/[^\s]+/i
FullUrlEnd(s, i) ==
  LET p == SchemeEnd(s, i)
  IN  IF p = -1 \/ NonSpaceRunEnd(s, p) = p THEN -1 ELSE NonSpaceRunEnd(s, p)

\* [a-zA-Z0-9][a-zA-Z0-9-]{1,61}[a-zA-Z0-9]\.[a-zA-Z]{2,} at position i: a
\* label of 3 to 63 characters that neither starts nor ends with "-", a dot,
\* then the whole run of letters
DomainLabelEnd(s, i) ==
  LET e == RunEnd(s, i, AlphaNum \cup {"-"})
      t == RunEnd(s, e + 1, Letters)
  IN  IF /\ e - i >= 3 /\ e - i <= 63
         /\ CharAt(s, i) # "-" /\ CharAt(s, e - 1) # "-"
         /\ CharAt(s, e) = "." /\ t >= e + 3
        THEN t ELSE -1

\* /\b(?:www\.)?[a-zA-Z0-9][a-zA-Z0-9-]{1,61}[a-zA-Z0-9]\.[a-zA-Z]{2,}/i :
\* the optional "www." is tried first, and given up when the rest fails
DomainEnd(s, i) ==
  IF ~WordBoundary(s, i) THEN -1
  ELSE IF StartsWithAtCI(s, "www.", i) /\ DomainLabelEnd(s, i + 4) # -1
    THEN DomainLabelEnd(s, i + 4)
  ELSE DomainLabelEnd(s, i)

FullUrlMatches(s) == MatchesFrom(s, [i \in 1..Len(s) |-> FullUrlEnd(s, i - 1)], 0)

DomainMatches(s) == MatchesFrom(s, [i \in 1..Len(s) |-> DomainEnd(s, i - 1)], 0)

suspiciousDomains == {"bit.ly", "tinyurl", "t.co", "goo.gl"}

-----------------------------------------------------------------------------
(* The optional capabilities                                               *)

\* What libphonenumber-js answers for one candidate, when it is installed.
PhoneVerdicts == {"valid", "invalid", "throws"}

\* What the bad-words filter does for a text, when it is installed: it
\* answers false ("clean") or true ("profane"), or it throws; "absent" is the
\* fallback filter of the catch block.
DictionaryKinds == {"absent", "clean", "profane", "throws"}

\* A variant of the fallback that validates nothing
FallbackRejectsAll(phone) == FALSE

\* The fallback of the catch block: the phone expression tested on the candidate
FallbackIsValidPhoneNumber(phone) == \E i \in 0..(Len(phone) - 1) : PhoneEnd(phone, i) # -1

\* isValidPhoneNumber(phone, 'US'): "valid", "invalid" or "throws"
isValidPhoneNumber(phoneLib, phone) ==
  IF phoneLib.installed THEN phoneLib.verdict[phone]
  ELSE IF FallbackIsValidPhoneNumber(phone) THEN "valid" ELSE "invalid"

\* new RegExp(`\\b${word}\\b`, 'i').test(s)
WholeWordTest(s, word) ==
  \E i \in 0..(Len(s) - Len(word)) :
    WordBoundary(s, i) /\ StartsWithAtCI(s, word, i) /\ WordBoundary(s, i + Len(word))

basicProfanity == {"fuck", "shit", "damn", "ass", "bitch", "sex", "porn"}

\* profanityFilter.isProfane of the fallback object
FallbackIsProfane(text) == \E word \in basicProfanity : WholeWordTest(toLowerCase(text), word)

-----------------------------------------------------------------------------
(* The detectors                                                           *)

RECURSIVE PhiSum(_, _, _)
\* the loop over PHI_PATTERNS: phiScore += pattern.weight * matches.length
PhiSum(patterns, k, acc) ==
  IF k > Len(patterns) THEN acc
  ELSE IF Len(patterns[k].matches) = 0 THEN PhiSum(patterns, k + 1, acc)
  ELSE PhiSum(patterns, k + 1, FAdd(acc, FMul(patterns[k].weight, Len(patterns[k].matches))))

\* the detections pushed by the loop over PHI_PATTERNS
PatternDetections(patterns) ==
  LET keep == {k \in 1..Len(patterns) : Len(patterns[k].matches) > 0}
      nth(n) == CHOOSE k \in keep : Cardinality({j \in keep : j < k}) = n - 1
  IN  [n \in 1..Cardinality(keep) |-> patterns[nth(n)]]

\* the candidates of the second pass that isValidPhoneNumber accepts, in order
RECURSIVE ValidatedPhones(_, _, _)
ValidatedPhones(phoneLib, phoneMatches, k) ==
  IF k > Len(phoneMatches) THEN <<>>
  ELSE (IF isValidPhoneNumber(phoneLib, phoneMatches[k]) = "valid"
          THEN <<phoneMatches[k]>> ELSE <<>>)
       \o ValidatedPhones(phoneLib, phoneMatches, k + 1)

RECURSIVE AddBonus(_, _)
\* phiScore += 0.9, once per validated candidate
AddBonus(acc, n) == IF n = 0 THEN acc ELSE AddBonus(FAdd(acc, 900), n - 1)

\* A variant of detectPHI without the second pass over the phone candidates
detectPHIWithoutBonus(text, phoneLib) ==
  LET patterns == PHI_PATTERNS(text)
  IN  [ score      |-> MathMin(PhiSum(patterns, 1, 0), 1000),
        detections |-> PatternDetections(patterns) ]

\* A variant of detectPHI that returns phiScore without Math.min(phiScore, 1.0)
detectPHIUncapped(text, phoneLib) ==
  LET patterns  == PHI_PATTERNS(text)
      validated == ValidatedPhones(phoneLib, PhoneMatches(text), 1)
  IN  [ score      |-> AddBonus(PhiSum(patterns, 1, 0), Len(validated)),
        detections |-> PatternDetections(patterns) \o
                       [n \in 1..Len(validated) |->
                          [type |-> "validated_phone", weight |-> 900,
                           matches |-> <<validated[n]>>]] ]

detectPHI(text, phoneLib) ==
  LET patterns  == PHI_PATTERNS(text)
      validated == ValidatedPhones(phoneLib, PhoneMatches(text), 1)
  IN  [ score      |-> MathMin(AddBonus(PhiSum(patterns, 1, 0), Len(validated)), 1000),
        detections |-> PatternDetections(patterns) \o
                       [n \in 1..Len(validated) |->
                          [type |-> "validated_phone", weight |-> 900,
                           matches |-> <<validated[n]>>]] ]

RECURSIVE SalesMatches(_, _)
SalesMatches(lowerText, k) ==
  IF k > Len(SALES_KEYWORDS) THEN <<>>
  ELSE (IF includes(lowerText, SALES_KEYWORDS[k]) THEN <<SALES_KEYWORDS[k]>> ELSE <<>>)
       \o SalesMatches(lowerText, k + 1)

RECURSIVE SalesSum(_, _)
\* salesScore += 0.2, once per keyword found
SalesSum(acc, n) == IF n = 0 THEN acc ELSE SalesSum(FAdd(acc, 200), n - 1)

detectSalesPitch(text) ==
  LET matches == SalesMatches(toLowerCase(text), 1)
  IN  [score |-> MathMin(SalesSum(0, Len(matches)), 1000), matches |-> matches]

RECURSIVE SpamSum(_, _, _)
\* spamScore += pattern.weight * Math.min(matches.length, 3)
SpamSum(patterns, k, acc) ==
  IF k > Len(patterns) THEN acc
  ELSE IF Len(patterns[k].matches) = 0 THEN SpamSum(patterns, k + 1, acc)
  ELSE SpamSum(patterns, k + 1,
               FAdd(acc, FMul(patterns[k].weight, MathMin(Len(patterns[k].matches), 3))))

detectSpam(text) ==
  LET patterns == SPAM_PATTERNS(text)
      found    == PatternDetections(patterns)
  IN  [ score      |-> MathMin(SpamSum(patterns, 1, 0), 1000),
        detections |-> [n \in 1..Len(found) |->
                          [type |-> found[n].type, matches |-> Len(found[n].matches)]] ]

detectLinks(text) ==
  LET urls    == FullUrlMatches(text)
      domains == DomainMatches(text)
      base    == FAdd(FAdd(0, FMul(300, Len(urls))), FMul(100, Len(domains)))
      hasSuspicious ==
        \E n \in 1..Len(urls) : \E dom \in suspiciousDomains : includes(urls[n], dom)
  IN  [ score   |-> MathMin(IF hasSuspicious THEN FAdd(base, 400) ELSE base, 1000),
        urls    |-> Len(urls),
        domains |-> Len(domains) ]

-----------------------------------------------------------------------------
(* Toxicity                                                                *)

\* the class of /[\s\-_\.\*\+\#\@\!]/
Separators == Whitespace \cup {"-", "_", ".", "*", "+", "#", "@", "!"}

RECURSIVE RemoveChars(_, _)
\* s.replace(/[class]/g, '')
RemoveChars(s, class) ==
  IF Len(s) = 0 THEN ""
  ELSE (IF SubSeq(s, 1, 1) \in class THEN "" ELSE SubSeq(s, 1, 1))
       \o RemoveChars(SubSeq(s, 2, Len(s)), class)

RECURSIVE ReplaceChar(_, _, _)
\* s.replace(/from/g, to) for a one-character from
ReplaceChar(s, from, to) ==
  IF Len(s) = 0 THEN ""
  ELSE (IF SubSeq(s, 1, 1) = from THEN to ELSE SubSeq(s, 1, 1))
       \o ReplaceChar(SubSeq(s, 2, Len(s)), from, to)

\* the leet-speak replacements, in the order the code applies them
LeetReplacements ==
  << <<"0", "o">>, <<"1", "i">>, <<"3", "e">>, <<"4", "a">>, <<"5", "s">>, <<"7", "t">>,
     <<"8", "b">>, <<"9", "g">>, <<"$", "s">>, <<"!", "i">>, <<"@", "a">> >>

RECURSIVE ApplyReplacements(_, _, _)
ApplyReplacements(s, table, k) ==
  IF k > Len(table) THEN s
  ELSE ApplyReplacements(ReplaceChar(s, table[k][1], table[k][2]), table, k + 1)

RECURSIVE CollapseRepeats(_, _)
\* s.replace(/(.)\1{2,}/g, '$1$1') from position i on
CollapseRepeats(s, i) ==
  IF i >= Len(s) THEN ""
  ELSE LET c == CharAt(s, i)
           e == RunEnd(s, i, {c})
       IN  IF c # "\n" /\ e - i >= 3 THEN c \o c \o CollapseRepeats(s, e)
           ELSE c \o CollapseRepeats(s, i + 1)

normalizeTextForDetection(text) ==
  IF Len(text) = 0 THEN ""
  ELSE CollapseRepeats(
         ApplyReplacements(RemoveChars(toLowerCase(text), Separators), LeetReplacements, 1), 0)

profanityPatterns ==
  { "masturbat", "mastrbat", "mstrbat",
    "nigger", "nigga", "niga", "ngga", "nger",
    "bastard", "bastrd", "bstrd",
    "violence", "vlnce", "violnc",
    "suicide", "suicid", "sucide",
    "murder", "murdr", "mrdr",
    "orgasm", "orgsm", "orgas",
    "erotic", "erotc", "erotik",
    "porn", "prn", "p0rn", "pornn",
    "naked", "nakd", "nked",
    "retard", "retrd", "rtard", "retad",
    "bitch", "bich", "bitchh", "btch",
    "pussy", "puss", "pusy", "pssy",
    "whore", "whor", "hore", "whoar",
    "abuse", "abus", "abse",
    "stupid", "stpid", "stupd",
    "idiot", "idot", "idit",
    "moron", "mron", "morrn",
    "fuck", "fuk", "fcuk", "fuc", "fuq",
    "shit", "sht", "shyt", "shitt",
    "damn", "damm", "dam",
    "crap", "crp", "krap",
    "piss", "pis", "pss",
    "dick", "dik", "dck", "dic",
    "cock", "cok", "kok", "cokc",
    "cunt", "cnt", "kunt",
    "slut", "slt", "slutt",
    "nude", "nud", "nudee",
    "kill", "kil", "kll",
    "hate", "hat", "hte",
    "rape", "rap", "rpe",
    "dumb", "dmb", "dum",
    "ass", "arse",
    "sex", "sx", "sexx", "seks" }

\* /[a-z0-9]/.test(c) for a character c, or for '' (false)
IsLowerAlnum(c) == c \in LowerLetters \cup Digits

\* the body of the loop of checkProfanityPatterns for one pattern: TRUE when
\* the loop returns true at this pattern
PatternHits(normalizedText, pattern) ==
  LET index == indexOf(normalizedText, pattern)
      n     == Len(normalizedText)
      m     == Len(pattern)
  IN  /\ m >= 2
      /\ index # -1
      /\ LET before  == IF index > 0 THEN CharAt(normalizedText, index - 1) ELSE ""
             after   == IF index + m < n THEN CharAt(normalizedText, index + m) ELSE ""
             context == Substring(normalizedText,
                                  IF index - 2 > 0 THEN index - 2 ELSE 0,
                                  MathMin(n, index + m + 2))
         IN  \/ index = 0
             \/ index + m = n
             \/ ~IsLowerAlnum(before)
             \/ ~IsLowerAlnum(after)
             \/ IF m <= 3
                  THEN \/ context = pattern
                       \/ StartsWithAt(context, pattern, 0)
                            /\ ~IsLowerAlnum(CharAt(context, m))
                       \/ StartsWithAt(context, pattern, Len(context) - m)
                            /\ ~IsLowerAlnum(CharAt(context, Len(context) - m - 1))
                  ELSE TRUE

\* the patterns that occur in the text: those for which indexOf is not -1
PatternsPresent(normalizedText) ==
  {SubSeq(normalizedText, i, j) : i \in 1..Len(normalizedText), j \in 1..Len(normalizedText)}
    \cap profanityPatterns

\* The loop returns true at the first pattern that hits, false when none does
\* (a pattern that does not occur in the text never hits).
checkProfanityPatterns(normalizedText) ==
  /\ Len(normalizedText) >= 2
  /\ \E pattern \in PatternsPresent(normalizedText) : PatternHits(normalizedText, pattern)

commonProfanity ==
  {"fuck", "shit", "damn", "ass", "bitch", "sex", "porn", "kill", "hate", "abuse"}

\* A variant of method 1 in which a throwing isProfane counts as a hit
DictionarySignalHitOnThrow(text, dictionary) ==
  CASE dictionary = "absent"  -> FallbackIsProfane(text)
    [] dictionary = "profane" -> TRUE
    [] dictionary = "clean"   -> FALSE
    [] dictionary = "throws"  -> TRUE

\* Method 1: profanityFilter.isProfane(text) inside try/catch
DictionarySignal(text, dictionary) ==
  CASE dictionary = "absent"  -> FallbackIsProfane(text)
    [] dictionary = "profane" -> TRUE
    [] dictionary = "clean"   -> FALSE
    [] dictionary = "throws"  -> FALSE

\* Method 2
hasObfuscatedProfanity(text) == checkProfanityPatterns(normalizeTextForDetection(text))

\* Method 3
hasDirectProfanity(text) == \E word \in commonProfanity : WholeWordTest(toLowerCase(text), word)

\* A variant of detectToxicity without method 3
detectToxicityWithoutDirect(text, dictionary) ==
  IF DictionarySignal(text, dictionary) \/ hasObfuscatedProfanity(text)
    THEN [score |-> 1000, isProfane |-> TRUE]
    ELSE [score |-> 0, isProfane |-> FALSE]

detectToxicity(text, dictionary) ==
  IF \/ DictionarySignal(text, dictionary)
     \/ hasObfuscatedProfanity(text)
     \/ hasDirectProfanity(text)
    THEN [score |-> 1000, isProfane |-> TRUE]
    ELSE [score |-> 0, isProfane |-> FALSE]

-----------------------------------------------------------------------------
(* getUserTrustScore and scan                                              *)

\* What User.findById does: it rejects ("error"), resolves to null
\* ("missing"), or resolves to a user whose account is ageDays old ("found").
AccountAges == {30, 31, 91}

LookupOutcomes ==
  {[kind |-> "error", ageDays |-> 0], [kind |-> "missing", ageDays |-> 0]}
    \cup {[kind |-> "found", ageDays |-> a] : a \in AccountAges}

\* A variant of getUserTrustScore that returns the default when findById
\* resolves to null
getUserTrustScoreDefaultForMissing(outcome) ==
  IF outcome.kind \in {"error", "missing"} THEN 500
  ELSE LET t30 == IF outcome.ageDays > 30 THEN FAdd(700, 100) ELSE 700
           t90 == IF outcome.ageDays > 90 THEN FAdd(t30, 100) ELSE t30
       IN  MathMin(t90, 1000)

\* A variant of getUserTrustScore whose catch block returns the base score
getUserTrustScoreBaseOnError(outcome) ==
  LET t30 == IF outcome.kind = "found" /\ outcome.ageDays > 30 THEN FAdd(700, 100) ELSE 700
      t90 == IF outcome.kind = "found" /\ outcome.ageDays > 90 THEN FAdd(t30, 100) ELSE t30
  IN  MathMin(t90, 1000)

\* A variant of getUserTrustScore that distrusts accounts of 30 days or less
getUserTrustScoreDistrustsNew(outcome) ==
  IF outcome.kind = "error" THEN 500
  ELSE IF outcome.kind = "found" /\ outcome.ageDays <= 30 THEN 300
  ELSE LET t30 == IF outcome.kind = "found" THEN FAdd(700, 100) ELSE 700
           t90 == IF outcome.kind = "found" /\ outcome.ageDays > 90 THEN FAdd(t30, 100) ELSE t30
       IN  MathMin(t90, 1000)

\* the value of getUserTrustScore(userId) once findById has settled
getUserTrustScore(outcome) ==
  IF outcome.kind = "error" THEN 500
  ELSE LET base == 700
           t30  == IF outcome.kind = "found" /\ outcome.ageDays > 30
                     THEN FAdd(base, 100) ELSE base
           t90  == IF outcome.kind = "found" /\ outcome.ageDays > 90
                     THEN FAdd(t30, 100) ELSE t30
       IN  MathMin(t90, 1000)

\* A variant of the guard without the !text part: typeof text !== 'string'
NotAString(text) == text.type # "string"

\* !text || typeof text !== 'string'
InvalidText(text) == text.type # "string" \/ Len(text.value) = 0

\* the object returned for invalid input
InvalidInputResult ==
  [ status |-> "REJECT",
    scores |-> [phi_score |-> 0, spam_score |-> 0, sales_pitch_score |-> 0,
                toxicity_score |-> 0, link_risk_score |-> 0, user_trust_score |-> 0],
    flags |-> <<>>,
    detectedSpans |-> <<>>,
    reason |-> "Invalid input" ]

RECURSIVE SpansOf(_, _, _, _)
\* phiResult.detections.forEach(det => det.matches.forEach(match => push(...)))
SpansOf(text, detections, d, m) ==
  IF d > Len(detections) THEN <<>>
  ELSE IF m > Len(detections[d].matches) THEN SpansOf(text, detections, d + 1, 1)
  ELSE LET match == detections[d].matches[m]
       IN  << [ text    |-> match,
                type    |-> "phi",
                subtype |-> detections[d].type,
                start   |-> indexOf(text, match),
                end     |-> indexOf(text, match) + Len(match) ] >>
           \o SpansOf(text, detections, d, m + 1)

\* A variant of the flags whose spam threshold is 0.6
FlagsOfSpamAboveSix(scores) ==
  (IF scores.phi_score > 300 THEN <<"phi_detected">> ELSE <<>>)
  \o (IF scores.spam_score > 600 THEN <<"spam_detected">> ELSE <<>>)
  \o (IF scores.sales_pitch_score > 600 THEN <<"sales_pitch">> ELSE <<>>)
  \o (IF scores.toxicity_score > 0 THEN <<"toxicity">> ELSE <<>>)
  \o (IF scores.link_risk_score > 600 THEN <<"suspicious_links">> ELSE <<>>)

\* the flags, in the order they are pushed
FlagsOf(scores) ==
  (IF scores.phi_score > 300 THEN <<"phi_detected">> ELSE <<>>)
  \o (IF scores.spam_score > 500 THEN <<"spam_detected">> ELSE <<>>)
  \o (IF scores.sales_pitch_score > 600 THEN <<"sales_pitch">> ELSE <<>>)
  \o (IF scores.toxicity_score > 0 THEN <<"toxicity">> ELSE <<>>)
  \o (IF scores.link_risk_score > 600 THEN <<"suspicious_links">> ELSE <<>>)

\* A variant of the chain that only soft-blocks spam above 0.7
StatusOfSpamSoftBlocked(scores) ==
  IF scores.toxicity_score > 0 THEN "REJECT"
  ELSE IF scores.phi_score > 500 THEN "QUARANTINE"
  ELSE IF scores.sales_pitch_score > 700 /\ scores.user_trust_score < 500 THEN "REJECT"
  ELSE IF scores.spam_score > 700 THEN "SOFT_BLOCK"
  ELSE IF \/ scores.phi_score > 200 /\ scores.link_risk_score > 400
          \/ scores.spam_score > 400 /\ scores.sales_pitch_score > 500
    THEN "QUARANTINE"
  ELSE IF \/ scores.phi_score > 200
          \/ scores.spam_score > 300
          \/ scores.link_risk_score > 500
    THEN "SOFT_BLOCK"
  ELSE "ALLOW"

\* A variant of the chain whose PHI comparison is not strict (>= 0.5)
StatusOfInclusivePhi(scores) ==
  IF scores.toxicity_score > 0 THEN "REJECT"
  ELSE IF scores.phi_score >= 500 THEN "QUARANTINE"
  ELSE IF scores.sales_pitch_score > 700 /\ scores.user_trust_score < 500 THEN "REJECT"
  ELSE IF scores.spam_score > 700 THEN "QUARANTINE"
  ELSE IF \/ scores.phi_score > 200 /\ scores.link_risk_score > 400
          \/ scores.spam_score > 400 /\ scores.sales_pitch_score > 500
    THEN "QUARANTINE"
  ELSE IF \/ scores.phi_score > 200
          \/ scores.spam_score > 300
          \/ scores.link_risk_score > 500
    THEN "SOFT_BLOCK"
  ELSE "ALLOW"

\* A variant of the chain that tests PHI before toxicity
StatusOfPhiFirst(scores) ==
  IF scores.phi_score > 500 THEN "QUARANTINE"
  ELSE IF scores.toxicity_score > 0 THEN "REJECT"
  ELSE IF scores.sales_pitch_score > 700 /\ scores.user_trust_score < 500 THEN "REJECT"
  ELSE IF scores.spam_score > 700 THEN "QUARANTINE"
  ELSE IF \/ scores.phi_score > 200 /\ scores.link_risk_score > 400
          \/ scores.spam_score > 400 /\ scores.sales_pitch_score > 500
    THEN "QUARANTINE"
  ELSE IF \/ scores.phi_score > 200
          \/ scores.spam_score > 300
          \/ scores.link_risk_score > 500
    THEN "SOFT_BLOCK"
  ELSE "ALLOW"

\* the if / else-if chain that sets status
StatusOf(scores) ==
  IF scores.toxicity_score > 0 THEN "REJECT"
  ELSE IF scores.phi_score > 500 THEN "QUARANTINE"
  ELSE IF scores.sales_pitch_score > 700 /\ scores.user_trust_score < 500 THEN "REJECT"
  ELSE IF scores.spam_score > 700 THEN "QUARANTINE"
  ELSE IF \/ scores.phi_score > 200 /\ scores.link_risk_score > 400
          \/ scores.spam_score > 400 /\ scores.sales_pitch_score > 500
    THEN "QUARANTINE"
  ELSE IF \/ scores.phi_score > 200
          \/ scores.spam_score > 300
          \/ scores.link_risk_score > 500
    THEN "SOFT_BLOCK"
  ELSE "ALLOW"

\* scan's locals after the five detector calls
DetectorResults(text, phoneLib, dictionary) ==
  [ phiResult      |-> detectPHI(text, phoneLib),
    salesResult    |-> detectSalesPitch(text),
    spamResult     |-> detectSpam(text),
    linkResult     |-> detectLinks(text),
    toxicityResult |-> detectToxicity(text, dictionary) ]

\* the part of scan after userTrustScore is known
ScanResult(text, context, locals, userTrustScore) ==
  LET scores == [ phi_score         |-> locals.phiResult.score,
                  spam_score        |-> locals.spamResult.score,
                  sales_pitch_score |-> locals.salesResult.score,
                  toxicity_score    |-> locals.toxicityResult.score,
                  link_risk_score   |-> locals.linkResult.score,
                  user_trust_score  |-> userTrustScore ]
  IN  [ status        |-> StatusOf(scores),
        scores        |-> scores,
        flags         |-> FlagsOf(scores),
        detectedSpans |-> SpansOf(text, locals.phiResult.detections, 1, 1),
        timestamp     |-> "now",
        context       |-> context ]

-----------------------------------------------------------------------------
(* utils/moderation.js: sanitizeInput                                      *)

\* the position of the first ch at or after i, or -1
IndexOfCharFrom(s, ch, i) ==
  LET hits == {k \in i..(Len(s) - 1) : CharAt(s, k) = ch}
  IN  IF hits = {} THEN -1 ELSE MinOf(hits)

BlockTags == {"script", "style"}

\* "<\s*name[^>]*>" at position i: the end of it, or -1
OpenTagEnd(s, i, name) ==
  LET j == RunEnd(s, i + 1, Whitespace)
      g == IndexOfCharFrom(s, ">", j + Len(name))
  IN  IF CharAt(s, i) = "<" /\ StartsWithAtCI(s, name, j) /\ g # -1 THEN g + 1 ELSE -1

\* "<\s*\/\s*name>" at position i (the back-reference \1 under the i flag)
CloseTagEnd(s, i, name) ==
  LET j == RunEnd(s, i + 1, Whitespace)
      k == RunEnd(s, j + 1, Whitespace)
  IN  IF /\ CharAt(s, i) = "<" /\ CharAt(s, j) = "/"
         /\ StartsWithAtCI(s, name, k) /\ CharAt(s, k + Len(name)) = ">"
        THEN k + Len(name) + 1 ELSE -1

\* A variant of the block expression that stops after the opening tag
BlockEndAfterOpenTag(s, i) ==
  LET names == {name \in BlockTags : OpenTagEnd(s, i, name) # -1}
  IN  IF names = {} THEN -1 ELSE OpenTagEnd(s, i, CHOOSE n \in names : TRUE)

\* /<\s*(script|style)[^>]*>[\s\S]*?<\s*\/\s*\1>/gi at position i: the block
\* ends with the first closing tag of the same name after the opening tag
BlockEnd(s, i) ==
  LET names == {name \in BlockTags : OpenTagEnd(s, i, name) # -1}
  IN  IF names = {} THEN -1
      ELSE LET name   == CHOOSE n \in names : TRUE
               closes == {q \in OpenTagEnd(s, i, name)..(Len(s) - 1) :
                            CloseTagEnd(s, q, name) # -1}
           IN  IF closes = {} THEN -1 ELSE CloseTagEnd(s, MinOf(closes), name)

\* A variant of the tag expression that matches closed, unnested tags only,
\* /<[^<>]*>/g
TagEndClosedOnly(s, i) ==
  LET g == IndexOfCharFrom(s, ">", i + 1)
      l == IndexOfCharFrom(s, "<", i + 1)
  IN  IF CharAt(s, i) = "<" /\ g # -1 /\ (l = -1 \/ g < l) THEN g + 1 ELSE -1

\* /<[^>]*>?/g at position i: up to and including the next ">", or to the end
\* of the text when there is none
TagEnd(s, i) ==
  IF CharAt(s, i) # "<" THEN -1
  ELSE IF IndexOfCharFrom(s, ">", i + 1) = -1 THEN Len(s)
  ELSE IndexOfCharFrom(s, ">", i + 1) + 1

RECURSIVE RemoveMatches(_, _, _)
\* s.replace(regex, '') with a g-flag expression; ends as in MatchesFrom
RemoveMatches(s, ends, i) ==
  IF i >= Len(s) THEN ""
  ELSE IF ends[i + 1] > i THEN RemoveMatches(s, ends, ends[i + 1])
  ELSE CharAt(s, i) \o RemoveMatches(s, ends, i + 1)

\* String.prototype.trim
trim(s) ==
  LET kept == {k \in 0..(Len(s) - 1) : CharAt(s, k) \notin Whitespace}
  IN  IF kept = {} THEN "" ELSE Substring(s, MinOf(kept), MaxOf(kept) + 1)

\* the first replace of sanitizeInput
RemoveBlocks(text) == RemoveMatches(text, [i \in 1..Len(text) |-> BlockEnd(text, i - 1)], 0)

\* the second replace of sanitizeInput
StripTags(text) == RemoveMatches(text, [i \in 1..Len(text) |-> TagEnd(text, i - 1)], 0)

sanitizeInput(text) == trim(StripTags(RemoveBlocks(text)))

-----------------------------------------------------------------------------
(* utils/moderation.js: analyzeTextForModeration                           *)

\* /\b\d{9,}\b/
LongNumberEnd(s, i) ==
  LET e == RunEnd(s, i, Digits)
  IN  IF WordBoundary(s, i) /\ e - i >= 9 /\ WordBoundary(s, e) THEN e ELSE -1

\* s.match(regex) for an expression without the g flag: the first match alone
\* (<<>> for null); ends as in MatchesFrom
FirstMatch(s, ends) ==
  LET hits == {i \in 0..(Len(s) - 1) : ends[i + 1] > i}
  IN  IF hits = {} THEN <<>> ELSE <<Substring(s, MinOf(hits), ends[MinOf(hits) + 1])>>

\* phiPatterns of utils/moderation.js, each with sanitized.match(p.regex)
phiPatterns(s) ==
  << [ reason  |-> "Possible phone number",
       matches |-> FirstMatch(s, [i \in 1..Len(s) |-> PhoneEnd(s, i - 1)]) ],
     [ reason  |-> "Possible SSN",
       matches |-> FirstMatch(s, [i \in 1..Len(s) |-> SsnEnd(s, i - 1)]) ],
     [ reason  |-> "Possible email address",
       matches |-> FirstMatch(s, [i \in 1..Len(s) |-> EmailEnd(s, i - 1)]) ],
     [ reason  |-> "Possible ZIP code or address fragment",
       matches |-> FirstMatch(s, [i \in 1..Len(s) |-> ZipEnd(s, i - 1)]) ],
     [ reason  |-> "Long numeric identifier",
       matches |-> FirstMatch(s, [i \in 1..Len(s) |-> LongNumberEnd(s, i - 1)]) ] >>

prohibitedWords == <<"hate", "kill", "violence", "abuse">>

PROMO_WORDS ==
  << "buy now", "purchase", "special offer", "limited time", "act now", "call now", "dm me",
     "message me", "contact me for", "for sale", "discount", "deal", "cheap", "affordable",
     "best price", "lowest price" >>

SPAM_WORDS ==
  << "free", "win", "prize", "congratulations", "click here", "visit", "check out",
     "link in bio", "subscribe", "follow for more" >>

\* what leo-profanity does for a text: "absent" when the package is not there
LeoAnswers == {"absent", "clean", "profane"}

\* words.filter(w => new RegExp(`\\b${w}\\b`, 'i').test(sanitized))
WordHits(words, sanitized) ==
  LET hit(w) == WholeWordTest(sanitized, w)
  IN  SelectSeq(words, hit)

\* the loop over phiPatterns: one detection for each expression that matches
PhiDetections(sanitized) ==
  LET matched(p) == p.matches # <<>>
      detection(p) == [type |-> p.reason, matches |-> p.matches]
      found == SelectSeq(phiPatterns(sanitized), matched)
  IN  [k \in 1..Len(found) |-> detection(found[k])]

\* A variant of the categories in which PHI detections raise no category
CategoriesWithoutPhi(badWordHits, promoHits, spamHits, phiDetections) ==
  (IF Len(badWordHits) # 0 THEN <<"bad_words">> ELSE <<>>)
  \o (IF Len(promoHits) # 0 THEN <<"promotion">> ELSE <<>>)
  \o (IF Len(spamHits) # 0 THEN <<"spam">> ELSE <<>>)

\* the categories, in the order they are pushed
Categories(badWordHits, promoHits, spamHits, phiDetections) ==
  (IF Len(badWordHits) # 0 THEN <<"bad_words">> ELSE <<>>)
  \o (IF Len(promoHits) # 0 THEN <<"promotion">> ELSE <<>>)
  \o (IF Len(spamHits) # 0 THEN <<"spam">> ELSE <<>>)
  \o (IF Len(phiDetections) # 0 THEN <<"phi">> ELSE <<>>)

\* analyzeTextForModeration(text) for a string text, leo answering as given
analyzeTextForModeration(text, leo) ==
  LET sanitized     == sanitizeInput(text)
      badWordHits   == CASE leo = "absent"  -> WordHits(prohibitedWords, sanitized)
                         [] leo = "profane" -> <<"profane">>
                         [] leo = "clean"   -> <<>>
      promoHits     == WordHits(PROMO_WORDS, sanitized)
      spamHits      == WordHits(SPAM_WORDS, sanitized)
      phiDetections == PhiDetections(sanitized)
      categories    == Categories(badWordHits, promoHits, spamHits, phiDetections)
  IN  [ badWordHits   |-> badWordHits,
        promoHits     |-> promoHits,
        spamHits      |-> spamHits,
        phiDetections |-> phiDetections,
        categories    |-> categories,
        alertRequired |-> Len(categories) > 0 ]

-----------------------------------------------------------------------------
(* Badges: awardBadge and checkForBadges                                   *)

BADGE_TYPES ==
  << [key |-> "first-post", name |-> "First Post"],
     [key |-> "community-contributor", name |-> "Community Contributor"],
     [key |-> "first-comment", name |-> "First Comment"],
     [key |-> "moderator", name |-> "Moderator"] >>

\* BADGE_TYPES.find((b) => b.key === badgeKey): <<>> for undefined
BadgeConfig(badgeKey) ==
  LET same(b) == b.key = badgeKey
  IN  SelectSeq(BADGE_TYPES, same)

\* the badge keys checkForBadges passes to awardBadge, in order
BadgesToCheck(stats) ==
  (IF stats.postsCount >= 1 THEN <<"first-post">> ELSE <<>>)
  \o (IF stats.postsCount >= 10 THEN <<"community-contributor">> ELSE <<>>)
  \o (IF stats.commentsCount >= 1 THEN <<"first-comment">> ELSE <<>>)
  \o (IF stats.role = "moderator-user" THEN <<"moderator">> ELSE <<>>)

-----------------------------------------------------------------------------
(* The inputs of the model                                                 *)

\* the number of fragments a text is made of
MaxFragments == 2

\* the number of scan calls that can be in progress at once
MaxCalls == 2

Fragments ==
  { "Call me at 555-123-4567", "BUY NOW!!!!! LIMITED TIME!!!!!", "x", " ", "12345",
    "http://bit.ly/", "sh1t", "1/2/34", "cheap deal" }

RECURSIVE Concatenations(_, _)
\* the strings made of at most n members of frags
Concatenations(frags, n) ==
  IF n = 0 THEN {""}
  ELSE LET shorter == Concatenations(frags, n - 1)
       IN  shorter \cup {s \o f : s \in shorter, f \in frags}

\* the strings scan is called with, the empty string among them
Texts == Concatenations(Fragments, MaxFragments)

\* the values of text scan is called with: a string, or undefined (no text),
\* null or a number (value is then the value written out)
TextInputs(texts) ==
  {[type |-> "string", value |-> v] : v \in texts}
    \cup { [type |-> "undefined", value |-> "undefined"], [type |-> "null", value |-> "null"],
           [type |-> "number", value |-> "42"] }

\* userId: "" stands for an absent (falsy) userId
UserIds == {"u1"}

\* context: "undefined" stands for an omitted context, which defaults to {}
Contexts == {"undefined", "{type:'post'}"}

DefaultContext(context) == IF context = "undefined" THEN "{}" ELSE context

Calls == 1..MaxCalls

SetOf(seq) == {seq[k] : k \in 1..Len(seq)}

-----------------------------------------------------------------------------
(* The state                                                               *)

VARIABLES
  installed,  \* which optional packages the module found when it was loaded
  pc,         \* pc[c]: "idle", "awaiting" (suspended in await getUserTrustScore), "done"
  input,      \* input[c]: the argument of the call: text, userId, context
  env,        \* env[c]: what the capabilities and User.findById answer during the call
  frame,      \* frame[c]: scan's local variables, alive across the await
  result,     \* result[c]: the ModerationResult the call returned
  calls,      \* calls[c]: how many detector calls and findById calls the call has made
  sanitizer,  \* a caller of sanitizeInput: its argument and what it got back
  precheck,   \* a call of analyzeTextForModeration: its argument and its outcome
  badges,     \* the Badge collection
  award,      \* award[c]: a call of awardBadge or checkForBadges in progress
  posts,      \* the Post collection
  request,    \* the request a controller is handling, and its response
  comments,   \* the Comment collection
  messages    \* the Message collection

\* the variables of the moderation service
scanVars == <<installed, pc, input, env, frame, result, calls>>

\* the variables of the callers of utils/moderation.js
utilVars == <<sanitizer, precheck>>

\* the variables of the badge utilities
badgeVars == <<badges, award>>

\* the variables of the controllers: the collections and the request
postVars == <<posts, request, comments, messages>>

vars ==
  << installed, pc, input, env, frame, result, calls, sanitizer, precheck, badges, award,
     posts, request, comments, messages >>

None == [kind |-> "none"]

NoLookup == [kind |-> "none", ageDays |-> 0]

Init ==
  /\ installed \in [phone : BOOLEAN, badWords : BOOLEAN]
  /\ pc = [c \in Calls |-> "idle"]
  /\ input = [c \in Calls |-> None]
  /\ env = [c \in Calls |-> None]
  /\ frame = [c \in Calls |-> None]
  /\ result = [c \in Calls |-> None]
  /\ calls = [c \in Calls |-> [detectors |-> 0, lookups |-> 0]]
  /\ sanitizer = None
  /\ precheck = None
  /\ badges = {}
  /\ award = [c \in Calls |-> None]
  /\ posts = {}
  /\ request = None
  /\ comments = {}
  /\ messages = {}

\* the answers libphonenumber-js can give for the candidates of a text
PhoneAnswers(text) ==
  IF installed.phone THEN [SetOf(PhoneMatches(text)) -> PhoneVerdicts] ELSE {<<>>}

\* what the bad-words filter can do for a text
DictionaryAnswers == IF installed.badWords THEN DictionaryKinds \ {"absent"} ELSE {"absent"}

\* scan is called with invalid text: it returns at once
ScanInvalidInput(c, texts) ==
  /\ pc[c] = "idle"
  /\ \E text \in TextInputs(texts), userId \in UserIds \cup {""}, context \in Contexts :
       /\ InvalidText(text)
       /\ input' = [input EXCEPT ![c] = [text |-> text, userId |-> userId, context |-> context]]
       /\ result' = [result EXCEPT ![c] = InvalidInputResult]
  /\ env' = [env EXCEPT ![c] = [phone |-> <<>>, dictionary |-> "unused", lookup |-> NoLookup]]
  /\ pc' = [pc EXCEPT ![c] = "done"]
  /\ UNCHANGED <<installed, frame, calls>>

\* scan is called with valid text: it runs the five detectors; without a
\* userId it takes 0.5 as the trust score and runs to its return, with a
\* userId it calls User.findById and suspends
ScanValidInput(c, texts) ==
  /\ pc[c] = "idle"
  /\ \E text \in {t \in TextInputs(texts) : ~InvalidText(t)} :
       \E phone \in PhoneAnswers(text.value), dictionary \in DictionaryAnswers :
         \E locals \in {DetectorResults(text.value,
                                         [installed |-> installed.phone, verdict |-> phone],
                                         dictionary)} :
           LET value == text.value
           IN  \E userId \in UserIds \cup {""}, context \in Contexts :
               /\ input' = [input EXCEPT ![c] =
                              [text |-> text, userId |-> userId, context |-> context]]
               /\ env' = [env EXCEPT ![c] =
                            [phone |-> phone, dictionary |-> dictionary, lookup |-> NoLookup]]
               /\ frame' = [frame EXCEPT ![c] = locals]
               /\ IF userId = ""
                    THEN /\ result' = [result EXCEPT ![c] =
                                         ScanResult(value, DefaultContext(context), locals, 500)]
                         /\ calls' = [calls EXCEPT ![c] = [detectors |-> 5, lookups |-> 0]]
                         /\ pc' = [pc EXCEPT ![c] = "done"]
                    ELSE /\ result' = result
                         /\ calls' = [calls EXCEPT ![c] = [detectors |-> 5, lookups |-> 1]]
                         /\ pc' = [pc EXCEPT ![c] = "awaiting"]
  /\ UNCHANGED installed

\* A variant in which the calls share one set of locals, those of the
\* lowest-numbered call that has run the detectors
LookupSettlesSharedLocals(c) ==
  /\ pc[c] = "awaiting"
  /\ \E outcome \in LookupOutcomes :
       /\ env' = [env EXCEPT ![c].lookup = outcome]
       /\ result' = [result EXCEPT ![c] =
                       ScanResult(input[c].text.value, DefaultContext(input[c].context),
                                  frame[MinOf({k \in Calls : frame[k] # None})],
                                  getUserTrustScore(outcome))]
  /\ pc' = [pc EXCEPT ![c] = "done"]
  /\ UNCHANGED <<installed, input, frame, calls>>

\* User.findById settles and scan runs to its return
LookupSettles(c) ==
  /\ pc[c] = "awaiting"
  /\ \E outcome \in LookupOutcomes :
       /\ env' = [env EXCEPT ![c].lookup = outcome]
       /\ result' = [result EXCEPT ![c] =
                       ScanResult(input[c].text.value, DefaultContext(input[c].context),
                                  frame[c], getUserTrustScore(outcome))]
  /\ pc' = [pc EXCEPT ![c] = "done"]
  /\ UNCHANGED <<installed, input, frame, calls>>

\* the caller takes the result; the call's values are gone
Consume(c) ==
  /\ pc[c] = "done"
  /\ pc' = [pc EXCEPT ![c] = "idle"]
  /\ input' = [input EXCEPT ![c] = None]
  /\ env' = [env EXCEPT ![c] = None]
  /\ frame' = [frame EXCEPT ![c] = None]
  /\ result' = [result EXCEPT ![c] = None]
  /\ calls' = [calls EXCEPT ![c] = [detectors |-> 0, lookups |-> 0]]
  /\ UNCHANGED installed

Next ==
  \/ ScanInvalidInput(1, Texts) /\ UNCHANGED <<utilVars, badgeVars, postVars>>
  \/ ScanValidInput(1, Texts) /\ UNCHANGED <<utilVars, badgeVars, postVars>>
  \/ LookupSettles(1) /\ UNCHANGED <<utilVars, badgeVars, postVars>>
  \/ Consume(1) /\ UNCHANGED <<utilVars, badgeVars, postVars>>

Spec == Init /\ [][Next]_vars

-----------------------------------------------------------------------------
(* scan on texts that exercise the toxicity detector                       *)

ToxicityFragments ==
  {"f u c k", "f4ck", "sh1t", "f*ck", "f0ck", "x ass", " x", "class", "fine"}

ToxicityTexts == Concatenations(ToxicityFragments, MaxFragments)

ToxicityNext ==
  \/ ScanInvalidInput(1, ToxicityTexts) /\ UNCHANGED <<utilVars, badgeVars, postVars>>
  \/ ScanValidInput(1, ToxicityTexts) /\ UNCHANGED <<utilVars, badgeVars, postVars>>
  \/ LookupSettles(1) /\ UNCHANGED <<utilVars, badgeVars, postVars>>
  \/ Consume(1) /\ UNCHANGED <<utilVars, badgeVars, postVars>>

ToxicitySpec == Init /\ [][ToxicityNext]_vars

-----------------------------------------------------------------------------
(* scan on texts that exercise the PHI detector                            *)

PhiFragments ==
  {"555-123-4567", " 555 123 4568", " ", "123-45-6789", "12345", "1/2/34"}

PhiTexts == Concatenations(PhiFragments, MaxFragments)

PhiNext ==
  \/ ScanInvalidInput(1, PhiTexts) /\ UNCHANGED <<utilVars, badgeVars, postVars>>
  \/ ScanValidInput(1, PhiTexts) /\ UNCHANGED <<utilVars, badgeVars, postVars>>
  \/ LookupSettles(1) /\ UNCHANGED <<utilVars, badgeVars, postVars>>
  \/ Consume(1) /\ UNCHANGED <<utilVars, badgeVars, postVars>>

\* the phone library is installed or not; the bad-words filter is not
PhiInit == Init /\ ~installed.badWords

PhiSpec == PhiInit /\ [][PhiNext]_vars

-----------------------------------------------------------------------------
(* Callers of sanitizeInput                                                *)

\* the number of pieces a marked-up text is made of
MaxPieces == 4

Pieces == {"<script>", "</script>", "<style>", "</style>", "<", ">", " ", "a"}

MarkedUpTexts == Concatenations(Pieces, MaxPieces)

\* sanitizeInput(text) is called and returns
Sanitize ==
  /\ sanitizer = None
  /\ \E text \in MarkedUpTexts :
       sanitizer' = [kind |-> "once", text |-> text, cleaned |-> sanitizeInput(text)]
  /\ UNCHANGED <<scanVars, precheck, badgeVars, postVars>>

\* the caller passes what it got back to sanitizeInput again
SanitizeAgain ==
  /\ sanitizer.kind = "once"
  /\ sanitizer' = [kind |-> "twice", text |-> sanitizer.text, cleaned |-> sanitizer.cleaned,
                   again |-> sanitizeInput(sanitizer.cleaned)]
  /\ UNCHANGED <<scanVars, precheck, badgeVars, postVars>>

\* the caller is done with the text
SanitizeDone ==
  /\ sanitizer.kind \in {"once", "twice"}
  /\ sanitizer' = None
  /\ UNCHANGED <<scanVars, precheck, badgeVars, postVars>>

SanitizeInit == Init /\ installed = [phone |-> FALSE, badWords |-> FALSE]

SanitizeNext == Sanitize \/ SanitizeAgain \/ SanitizeDone

SanitizeSpec == SanitizeInit /\ [][SanitizeNext]_vars

-----------------------------------------------------------------------------
(* Callers of analyzeTextForModeration                                     *)

PreCheckFragments ==
  {"hate", "buy now", "free", " 555-123-4567", "<b>", " ", "x", "123456789"}

PreCheckTexts == Concatenations(PreCheckFragments, MaxFragments)

\* analyzeTextForModeration(text) is called: undefined takes the default '',
\* any other value that is not a string makes sanitizeInput throw a TypeError
AnalyzeText(texts) ==
  /\ precheck = None
  /\ \E text \in TextInputs(texts), leo \in LeoAnswers :
       precheck' =
         IF text.type \in {"string", "undefined"}
           THEN [ kind |-> "result", text |-> text, leo |-> leo,
                  result |-> analyzeTextForModeration(
                               IF text.type = "undefined" THEN "" ELSE text.value, leo) ]
           ELSE [kind |-> "threw", text |-> text, leo |-> leo]
  /\ UNCHANGED <<scanVars, sanitizer, badgeVars, postVars>>

\* the caller is done with the outcome
AnalyzeDone ==
  /\ precheck # None
  /\ precheck' = None
  /\ UNCHANGED <<scanVars, sanitizer, badgeVars, postVars>>

PreCheckNext == AnalyzeText(PreCheckTexts) \/ AnalyzeDone

PreCheckSpec == SanitizeInit /\ [][PreCheckNext]_vars

-----------------------------------------------------------------------------
(* Several scan calls in progress at once                                  *)

ConcurrentTexts == {"sh1t", "12345"}

\* Any call takes a step. Every call passes no context, and the dictionary
\* answers without throwing and finds nothing.
ConcurrentNext ==
  \E c \in Calls :
    \/ /\ ScanInvalidInput(c, ConcurrentTexts)
       /\ input'[c].context = "undefined" /\ input'[c].userId = ""
       /\ UNCHANGED <<utilVars, badgeVars, postVars>>
    \/ /\ ScanValidInput(c, ConcurrentTexts)
       /\ input'[c].context = "undefined" /\ env'[c].dictionary \in {"absent", "clean"}
       /\ UNCHANGED <<utilVars, badgeVars, postVars>>
    \/ LookupSettles(c) /\ UNCHANGED <<utilVars, badgeVars, postVars>>
    \/ Consume(c) /\ UNCHANGED <<utilVars, badgeVars, postVars>>

\* the module was loaded with bad-words installed and libphonenumber-js not
ConcurrentInit == Init /\ installed = [phone |-> FALSE, badWords |-> TRUE]

ConcurrentSpec == ConcurrentInit /\ [][ConcurrentNext]_vars

-----------------------------------------------------------------------------
(* Two scan calls whose verdicts are compared                              *)

\* texts of every status, with score vectors that are ordered and not
PairTexts ==
  { "x", "12345", "sh1t", "http://bit.ly/", "Call me at 555-123-4567",
    "BUY NOW!!!!! LIMITED TIME!!!!!", "BUY NOW!!!!! LIMITED TIME!!!!!cheap deal",
    "BUY NOW!!!!! LIMITED TIME!!!!!cheap dealhttp://bit.ly/" }

PairNext ==
  \E c \in {1, 2} :
    \/ /\ ScanValidInput(c, PairTexts)
       /\ input'[c].context = "undefined"
       /\ UNCHANGED <<utilVars, badgeVars, postVars>>
    \/ LookupSettles(c) /\ UNCHANGED <<utilVars, badgeVars, postVars>>
    \/ Consume(c) /\ UNCHANGED <<utilVars, badgeVars, postVars>>

PairSpec == SanitizeInit /\ [][PairNext]_vars

-----------------------------------------------------------------------------
(* scan on texts that mention links                                        *)

LinkFragments == {"http", "WWW.", "see ", "x", "https://a.io", "Http://bit.ly/", ":"}

LinkTexts == Concatenations(LinkFragments, MaxFragments)

LinkNext ==
  \/ ScanInvalidInput(1, LinkTexts) /\ UNCHANGED <<utilVars, badgeVars, postVars>>
  \/ ScanValidInput(1, LinkTexts) /\ UNCHANGED <<utilVars, badgeVars, postVars>>
  \/ LookupSettles(1) /\ UNCHANGED <<utilVars, badgeVars, postVars>>
  \/ Consume(1) /\ UNCHANGED <<utilVars, badgeVars, postVars>>

LinkSpec == SanitizeInit /\ [][LinkNext]_vars

-----------------------------------------------------------------------------
(* Callers of awardBadge and checkForBadges                                *)

BadgeUsers == {"user-1"}

\* the keys awardBadge is called with directly
AwardKeys == {"first-post", "no-such-badge"}

\* the counts and roles checkForBadges is called with
BadgeStats ==
  { [postsCount |-> 0, commentsCount |-> 0, role |-> "patient-user"],
    [postsCount |-> 2, commentsCount |-> 0, role |-> "patient-user"],
    [postsCount |-> 10, commentsCount |-> 1, role |-> "moderator-user"] }

\* the call moves on to the next key, or returns when there is none
AfterBadge(call, earned) ==
  [ call EXCEPT !.todo   = Tail(call.todo),
                !.earned = earned,
                !.phase  = IF Len(call.todo) = 1 THEN "returned" ELSE "findOne" ]

\* awardBadge(userId, badgeKey) is called
CallAwardBadge(c) ==
  /\ award[c] = None
  /\ \E userId \in BadgeUsers, badgeKey \in AwardKeys :
       award' = [award EXCEPT ![c] =
                   [ op |-> "awardBadge", userId |-> userId, todo |-> <<badgeKey>>,
                     phase |-> "findOne", earned |-> <<>> ]]
  /\ UNCHANGED <<scanVars, utilVars, badges, postVars>>

\* checkForBadges(userId, {postsCount, commentsCount, role}) is called
CallCheckForBadges(c) ==
  /\ award[c] = None
  /\ \E userId \in BadgeUsers, stats \in BadgeStats :
       award' = [award EXCEPT ![c] =
                   [ op |-> "checkForBadges", userId |-> userId, todo |-> BadgesToCheck(stats),
                     phase |-> IF BadgesToCheck(stats) = <<>> THEN "returned" ELSE "findOne",
                     earned |-> <<>> ]]
  /\ UNCHANGED <<scanVars, utilVars, badges, postVars>>

\* Badge.findOne({ userId, type: badgeKey }) settles: awardBadge returns null
\* when the badge exists or the key has no configuration
BadgeFindOne(c) ==
  /\ award[c] # None /\ award[c].phase = "findOne"
  /\ LET badgeKey == Head(award[c].todo)
         exists   == \E b \in badges : b.userId = award[c].userId /\ b.type = badgeKey
     IN  award' = [award EXCEPT ![c] =
                     IF exists \/ BadgeConfig(badgeKey) = <<>>
                       THEN AfterBadge(award[c], award[c].earned)
                       ELSE [award[c] EXCEPT !.phase = "create"]]
  /\ UNCHANGED <<scanVars, utilVars, badges, postVars>>

\* Badge.create(...) settles: the badge is stored under a fresh _id and returned
BadgeCreate(c) ==
  /\ award[c] # None /\ award[c].phase = "create"
  /\ LET badgeKey == Head(award[c].todo)
         copies   == {b \in badges : b.userId = award[c].userId /\ b.type = badgeKey}
         badge    == [ id     |-> <<award[c].userId, badgeKey, Cardinality(copies) + 1>>,
                       userId |-> award[c].userId,
                       type   |-> badgeKey,
                       name   |-> BadgeConfig(badgeKey)[1].name ]
     IN  /\ badges' = badges \cup {badge}
         /\ award' = [award EXCEPT ![c] = AfterBadge(award[c], Append(award[c].earned, badge))]
  /\ UNCHANGED <<scanVars, utilVars, postVars>>

\* the call returns: earned for checkForBadges, the badge or null for awardBadge
BadgeReturn(c) ==
  /\ award[c] # None /\ award[c].phase = "returned"
  /\ award' = [award EXCEPT ![c] = None]
  /\ UNCHANGED <<scanVars, utilVars, badges, postVars>>

BadgeNext ==
  \E c \in Calls :
    \/ CallAwardBadge(c)
    \/ CallCheckForBadges(c)
    \/ BadgeFindOne(c)
    \/ BadgeCreate(c)
    \/ BadgeReturn(c)

BadgeSpec == SanitizeInit /\ [][BadgeNext]_vars

-----------------------------------------------------------------------------
(* postsController: createPost                                             *)

\* the number of posts the Post collection can hold
MaxPosts == 2

PostContents == {"sh1t", "buy now", "hello", "<b>"}

\* req.body.groupId: none, or a group that is missing, private to others, or
\* open to the author
GroupCases == {"none", "missing", "private", "member"}

PostRoles == {"patient-user", "moderator-user"}

\* Post.countDocuments({ authorId, removed: false })
PostsCount(authorId) == Cardinality({p \in posts : p.authorId = authorId /\ ~p.removed})

\* the response createPost sends before it reaches Post.create, or "none"
EarlyResponse(content, body, analysisResult) ==
  IF content = "" THEN 400
  ELSE IF analysisResult.alertRequired /\ ~body.userConfirmedModeration THEN 409
  ELSE IF body.group = "missing" THEN 404
  ELSE IF body.group = "private" /\ body.role # "admin-user" THEN 403
  ELSE 0

\* A variant that never marks a post for review
NewPostAlwaysAllowed(content, body, analysisResult) ==
  [ id         |-> Cardinality(posts) + 1,
    authorId   |-> body.userId,
    content    |-> content,
    reported   |-> FALSE,
    removed    |-> FALSE,
    mediaUrl   |-> "",
    updatedAt  |-> "created",
    moderation |-> [status |-> "ALLOW", analysis |-> analysisResult.categories],
    visible    |-> TRUE ]

\* the document createPost passes to Post.create
NewPost(content, body, analysisResult) ==
  LET isPendingReview == analysisResult.alertRequired /\ body.userConfirmedModeration
  IN  [ id         |-> Cardinality(posts) + 1,
        authorId   |-> body.userId,
        content    |-> content,
        reported   |-> isPendingReview,
        removed    |-> FALSE,
        mediaUrl   |-> "",
        updatedAt  |-> "created",
        moderation |-> [ status   |-> IF isPendingReview THEN "PENDING_REVIEW" ELSE "ALLOW",
                         analysis |-> analysisResult.categories ],
        visible    |-> TRUE ]

\* createPost runs from the request to its first response, or through
\* Post.create to the call of checkForBadges. A content that is a number makes
\* sanitizeInput throw, which the catch block hands to next(error) (500).
\* leo is what leo-profanity answers during the call;
\* scans counts the calls of moderationScan the handler has made.
CreatePostFrom(texts, groups, leos, roles, counts) ==
  /\ request = None /\ award[1] = None
  /\ \E text \in TextInputs(texts), userConfirmed \in BOOLEAN, group \in groups,
        leo \in leos, role \in roles, commentsCount \in counts :
       LET body == [ content |-> text, userConfirmedModeration |-> userConfirmed,
                     group |-> group, userId |-> "user-1", role |-> role, leo |-> leo ]
       IN  IF text.type = "number"
             THEN /\ request' = [ op |-> "createPost", pc |-> "responded", body |-> body,
                                  code |-> 500, scans |-> 0 ]
                  /\ UNCHANGED <<posts, award>>
             ELSE \E content \in {sanitizeInput(IF text.type = "string" THEN text.value ELSE "")} :
                  \E analysisResult \in {analyzeTextForModeration(content, leo)} :
                    IF EarlyResponse(content, body, analysisResult) # 0
                      THEN /\ request' = [ op |-> "createPost", pc |-> "responded",
                                           body |-> body, scans |-> 0,
                                           code |-> EarlyResponse(content, body, analysisResult) ]
                           /\ UNCHANGED <<posts, award>>
                      ELSE /\ Cardinality(posts) < MaxPosts
                           /\ posts' = posts \cup {NewPost(content, body, analysisResult)}
                           /\ request' = [ op |-> "createPost", pc |-> "checkForBadges",
                                           body |-> body, scans |-> 0, code |-> 0,
                                           post |-> NewPost(content, body, analysisResult) ]
                           /\ award' = [award EXCEPT ![1] =
                                [ op |-> "checkForBadges", userId |-> body.userId,
                                  todo |-> BadgesToCheck(
                                             [ postsCount    |-> PostsCount(body.userId) + 1,
                                               commentsCount |-> commentsCount,
                                               role          |-> role ]),
                                  phase |-> "findOne", earned |-> <<>> ]]
  /\ UNCHANGED <<scanVars, utilVars, badges, comments, messages>>

\* createPost on the requests of the posts specification; the author's other
\* comments are not in the model, their number is any of 0 and 1
CreatePost == CreatePostFrom(PostContents, GroupCases, LeoAnswers, PostRoles, {0, 1})

\* checkForBadges has returned: createPost responds 201 with the post
CreatePostResponds ==
  /\ request # None /\ request.op = "createPost" /\ request.pc = "checkForBadges"
  /\ award[1] # None /\ award[1].phase = "returned"
  /\ request' = [request EXCEPT !.pc = "responded", !.code = 201]
  /\ award' = [award EXCEPT ![1] = None]
  /\ UNCHANGED <<scanVars, utilVars, badges, posts, comments, messages>>

\* the response has been sent; the request is over
RequestEnds ==
  /\ request # None /\ request.pc = "responded"
  /\ request' = None
  /\ UNCHANGED <<scanVars, utilVars, badgeVars, posts, comments, messages>>

PostNext ==
  \/ CreatePost
  \/ BadgeFindOne(1)
  \/ BadgeCreate(1)
  \/ CreatePostResponds
  \/ RequestEnds

PostSpec == SanitizeInit /\ [][PostNext]_vars

\* createPost on content the analyzer flags or not, depending on leo-profanity
ConfirmContents == {"hate", "hello"}

ConfirmNext ==
  \/ CreatePostFrom(ConfirmContents, GroupCases, LeoAnswers, {"patient-user"}, {0})
  \/ BadgeFindOne(1)
  \/ BadgeCreate(1)
  \/ CreatePostResponds
  \/ RequestEnds

ConfirmSpec == SanitizeInit /\ [][ConfirmNext]_vars

-----------------------------------------------------------------------------
(* postsController: addPostComment; conversationsController: sendMessage   *)

\* the number of comments the Comment collection can hold
MaxComments == 1

\* the number of messages the Message collection can hold
MaxMessages == 1

\* the content of a comment: texts scan allows, rejects, quarantines and
\* soft-blocks, markup only, and a number
CommentContents ==
  { [type |-> "string", value |-> v] :
      v \in {"nice", "sh1t", "Call me at 555-123-4567", "http://bit.ly/", "<b>"} }
    \cup {[type |-> "number", value |-> "42"]}

\* the text of a message: as for a comment, blank, or none
MessageTexts ==
  { [type |-> "string", value |-> v] :
      v \in {"nice", "sh1t", "Call me at 555-123-4567", "http://bit.ly/", " "} }
    \cup {[type |-> "undefined", value |-> "undefined"]}

\* the post a comment is written under: the first post, or one that is not stored
CommentedPostIds == {1, MaxPosts + 1}

\* canViewGroupPost(post, group, userId, role), for a post without a group
\* and for a post of a group the user may or may not view
ViewCases == {"no group", "allowed", "denied"}

\* Comment.countDocuments({ authorId, removed: false })
CommentsCount(authorId) ==
  Cardinality({k \in comments : k.authorId = authorId /\ ~k.removed})

\* A variant that blocks rejected texts only
BlockedErrorRejectOnly(status) ==
  IF status = "REJECT" THEN "content_rejected" ELSE ""

\* the status checks with the quarantine check left out
BlockedErrorWithoutQuarantine(status) ==
  IF status = "REJECT" THEN "content_rejected"
  ELSE IF status = "SOFT_BLOCK" THEN "content_blocked"
  ELSE ""

\* the three status checks that end the request with 400
BlockedError(status) ==
  IF status = "REJECT" THEN "content_rejected"
  ELSE IF status = "QUARANTINE" THEN "content_quarantined"
  ELSE IF status = "SOFT_BLOCK" THEN "content_blocked"
  ELSE ""

\* the handler calls moderationScan({ text, userId: req.user.id, context })
\* with a text that is a non-blank string, and suspends in the await
CallModerationScan(text) ==
  /\ ScanValidInput(1, {text})
  /\ input'[1].userId = "u1"
  /\ input'[1].context # "undefined"

\* addPostComment runs from the request to its first response or to the call
\* of moderationScan. A content that is a number makes sanitizeInput throw,
\* which the catch block hands to next(error) (500).
AddPostComment(contents, postIds, roles) ==
  /\ request = None /\ pc[1] = "idle" /\ award[1] = None
  /\ \E text \in contents, postId \in postIds, view \in ViewCases, role \in roles :
       LET body == [ content |-> text, postId |-> postId, view |-> view,
                     userId |-> "user-1", role |-> role ]
           early(code) == [ op |-> "addPostComment", pc |-> "responded", body |-> body,
                            content |-> "", code |-> code, error |-> "" ]
       IN  IF text.type = "number"
             THEN request' = early(500) /\ UNCHANGED scanVars
             ELSE \E content \in {sanitizeInput(IF text.type = "string" THEN text.value ELSE "")} :
                    IF content = ""
                      THEN request' = early(400) /\ UNCHANGED scanVars
                      ELSE /\ CallModerationScan(content)
                           /\ request' = [early(0) EXCEPT !.pc = "moderationScan",
                                                          !.content = content]
  /\ UNCHANGED <<utilVars, badgeVars, posts, comments, messages>>

\* the document addPostComment passes to Comment.create
NewComment(req, moderationResult) ==
  [ id         |-> Cardinality(comments) + 1,
    postId     |-> req.body.postId,
    authorId   |-> req.body.userId,
    content    |-> req.content,
    removed    |-> FALSE,
    moderation |-> [status |-> moderationResult.status, flags |-> moderationResult.flags],
    visible    |-> TRUE ]

\* moderationScan has returned: addPostComment answers 400 for a blocked
\* comment, 404 or 403 for the post, or creates the comment and calls
\* checkForBadges
AddPostCommentResumes ==
  /\ request # None /\ request.op = "addPostComment" /\ request.pc = "moderationScan"
  /\ pc[1] = "done"
  /\ LET moderationResult == result[1]
         respond(code, error) == [request EXCEPT !.pc = "responded", !.code = code,
                                                 !.error = error]
     IN  IF BlockedError(moderationResult.status) # ""
           THEN /\ request' = respond(400, BlockedError(moderationResult.status))
                /\ UNCHANGED <<comments, award>>
         ELSE IF ~\E p \in posts : p.id = request.body.postId /\ ~p.removed
           THEN request' = respond(404, "Post not found") /\ UNCHANGED <<comments, award>>
         ELSE IF request.body.view = "denied"
           THEN /\ request' = respond(403, "Not authorized to comment on this post")
                /\ UNCHANGED <<comments, award>>
         ELSE /\ Cardinality(comments) < MaxComments
              /\ comments' = comments \cup {NewComment(request, moderationResult)}
              /\ request' = [request EXCEPT !.pc = "checkForBadges"]
              /\ \E todo \in {BadgesToCheck(
                                [ postsCount    |-> PostsCount(request.body.userId),
                                  commentsCount |-> CommentsCount(request.body.userId) + 1,
                                  role          |-> request.body.role ])} :
                   award' = [award EXCEPT ![1] =
                               [ op |-> "checkForBadges", userId |-> request.body.userId,
                                 todo |-> todo, earned |-> <<>>,
                                 phase |-> IF todo = <<>> THEN "returned" ELSE "findOne" ]]
  /\ Consume(1)
  /\ UNCHANGED <<utilVars, badges, posts, messages>>

\* checkForBadges has returned: addPostComment responds 201 with the comment
AddPostCommentResponds ==
  /\ request # None /\ request.op = "addPostComment" /\ request.pc = "checkForBadges"
  /\ award[1] # None /\ award[1].phase = "returned"
  /\ request' = [request EXCEPT !.pc = "responded", !.code = 201]
  /\ award' = [award EXCEPT ![1] = None]
  /\ UNCHANGED <<scanVars, utilVars, badges, posts, comments, messages>>

\* Conversation.findById(convId) and isParticipant(conv, req.user.id)
ConversationCases == {"missing", "stranger", "participant"}

\* (req.body.text || '').toString()
MessageText(text) == IF text.type \in {"string", "number"} THEN text.value ELSE ""

\* the document sendMessage passes to Message.create
NewMessage(req, moderationResult) ==
  [ id         |-> Cardinality(messages) + 1,
    senderId   |-> req.body.userId,
    text       |-> sanitizeInput(req.content),
    hasMedia   |-> req.body.image,
    moderation |-> [status |-> moderationResult.status, flags |-> moderationResult.flags],
    visible    |-> TRUE ]

\* sendMessage from the status checks to its response: 400 for a blocked
\* text, 500 when the upload of the image throws, else the message is created
SendMessageStores(req, moderationResult, uploaded) ==
  LET respond(code, error) == [req EXCEPT !.pc = "responded", !.code = code, !.error = error]
  IN  IF BlockedError(moderationResult.status) # ""
        THEN /\ request' = respond(400, BlockedError(moderationResult.status))
             /\ UNCHANGED messages
      ELSE IF req.body.image /\ ~uploaded
        THEN request' = respond(500, "") /\ UNCHANGED messages
      ELSE /\ Cardinality(messages) < MaxMessages
           /\ messages' = messages \cup {NewMessage(req, moderationResult)}
           /\ request' = respond(201, "")

\* the result sendMessage builds for a message without text
ImageOnlyResult == [status |-> "ALLOW", flags |-> <<>>]

\* sendMessage runs from the request to its first response or to the call of
\* moderationScan; a message without text is not scanned
SendMessage(texts) ==
  /\ request = None /\ pc[1] = "idle"
  /\ \E text \in texts, image \in BOOLEAN, conv \in ConversationCases,
        uploaded \in BOOLEAN :
       LET body == [text |-> text, image |-> image, conv |-> conv, userId |-> "user-1"]
           req  == [ op |-> "sendMessage", pc |-> "moderationScan", body |-> body,
                     content |-> MessageText(text), code |-> 0, error |-> "" ]
           respond(code) == [req EXCEPT !.pc = "responded", !.code = code]
       IN  IF conv = "missing" THEN request' = respond(404) /\ UNCHANGED <<scanVars, messages>>
           ELSE IF conv = "stranger"
             THEN request' = respond(403) /\ UNCHANGED <<scanVars, messages>>
           ELSE IF trim(req.content) = "" /\ ~image
             THEN request' = respond(400) /\ UNCHANGED <<scanVars, messages>>
           ELSE IF trim(req.content) # ""
             THEN /\ ~uploaded
                  /\ CallModerationScan(req.content)
                  /\ request' = req
                  /\ UNCHANGED messages
           ELSE SendMessageStores(req, ImageOnlyResult, uploaded) /\ UNCHANGED scanVars
  /\ UNCHANGED <<utilVars, badgeVars, posts, comments>>

\* moderationScan has returned: sendMessage answers 400 for a blocked text
\* or creates the message
SendMessageResumes ==
  /\ request # None /\ request.op = "sendMessage" /\ request.pc = "moderationScan"
  /\ pc[1] = "done"
  /\ \E uploaded \in BOOLEAN : SendMessageStores(request, result[1], uploaded)
  /\ Consume(1)
  /\ UNCHANGED <<utilVars, badgeVars, posts, comments>>

\* the texts of the posts the comments are written under
CommentedPosts == {"hello"}

WriteNext ==
  \/ CreatePostFrom(CommentedPosts, {"none"}, {"absent"}, {"patient-user"},
                    {CommentsCount("user-1")})
  \/ CreatePostResponds
  \/ AddPostComment(CommentContents, CommentedPostIds, {"patient-user"})
  \/ LookupSettles(1) /\ UNCHANGED <<utilVars, badgeVars, postVars>>
  \/ AddPostCommentResumes
  \/ AddPostCommentResponds
  \/ BadgeFindOne(1)
  \/ BadgeCreate(1)
  \/ SendMessage(MessageTexts)
  \/ SendMessageResumes
  \/ RequestEnds

WriteSpec == SanitizeInit /\ [][WriteNext]_vars

-----------------------------------------------------------------------------
(* postsController: updatePost                                             *)

\* req.body.content of an edit: clean, rejected, quarantined and soft-blocked
\* texts, markup, blank, none, and a number
EditContents ==
  { [type |-> "string", value |-> v] :
      v \in { "hello again", "sh1t", "Call me at 555-123-4567", "http://bit.ly/",
              "<b>bold</b>", " " } }
    \cup {[type |-> "undefined", value |-> "undefined"], [type |-> "number", value |-> "42"]}

\* the post of an edit: the first post, or one that is not stored
EditedPostIds == {1, MaxPosts + 1}

\* req.user.id: the author of the posts, or another user
Editors == {"user-1", "user-2"}

\* req.body.image and req.body.removeImage: neither, an image whose upload
\* succeeds or throws, or removeImage
ImageCases == {"none", "uploaded", "upload fails", "remove"}

\* post.mediaUrl after the image step
EditedMediaUrl(post, image) ==
  CASE image = "uploaded" -> "uploaded.url"
    [] image = "remove"   -> "null"
    [] OTHER              -> post.mediaUrl

\* A variant that saves the content as it was sent
UpdatePostSavesUnsanitized(req) ==
  LET post == CHOOSE p \in posts : p.id = req.body.postId
  IN  /\ posts' = (posts \ {post}) \cup
                    {[post EXCEPT !.content   = req.body.content.value,
                                  !.mediaUrl  = EditedMediaUrl(post, req.body.image),
                                  !.updatedAt = "edited"]}
      /\ request' = [req EXCEPT !.pc = "responded", !.code = 200]

\* post.content = sanitizeInput(content); post.updatedAt = new Date();
\* await post.save(), and the 200 response. A content that is a number makes
\* sanitizeInput throw: nothing is saved and next(error) answers 500.
UpdatePostSaves(req) ==
  LET post == CHOOSE p \in posts : p.id = req.body.postId
  IN  IF req.body.content.type # "string"
        THEN /\ request' = [req EXCEPT !.pc = "responded", !.code = 500]
             /\ UNCHANGED posts
        ELSE /\ posts' = (posts \ {post}) \cup
                           {[post EXCEPT !.content   = sanitizeInput(req.body.content.value),
                                         !.mediaUrl  = EditedMediaUrl(post, req.body.image),
                                         !.updatedAt = "edited"]}
             /\ request' = [req EXCEPT !.pc = "responded", !.code = 200]

\* updatePost runs from the request to its first response or to the call of
\* moderationScan, which it makes when userConfirmedModeration is falsy and
\* content.trim() is not empty; content.trim() throws for a number (500)
UpdatePost(contents, postIds, images) ==
  /\ request = None /\ pc[1] = "idle"
  /\ \E content \in contents, postId \in postIds, userId \in Editors,
        userConfirmed \in BOOLEAN, image \in images :
       LET body == [ content |-> content, postId |-> postId, userId |-> userId,
                     userConfirmedModeration |-> userConfirmed, image |-> image ]
           req  == [ op |-> "updatePost", pc |-> "moderationScan", body |-> body,
                     code |-> 0, scans |-> 0 ]
           respond(code) == [req EXCEPT !.pc = "responded", !.code = code]
       IN  IF ~\E p \in posts : p.id = postId
             THEN request' = respond(404) /\ UNCHANGED <<scanVars, posts>>
           ELSE IF (CHOOSE p \in posts : p.id = postId).authorId # userId
             THEN request' = respond(403) /\ UNCHANGED <<scanVars, posts>>
           ELSE IF content.type = "undefined"
             THEN request' = respond(400) /\ UNCHANGED <<scanVars, posts>>
           ELSE IF userConfirmed
             THEN UpdatePostSaves(req) /\ UNCHANGED scanVars
           ELSE IF content.type = "number"
             THEN request' = respond(500) /\ UNCHANGED <<scanVars, posts>>
           ELSE IF trim(content.value) = ""
             THEN UpdatePostSaves(req) /\ UNCHANGED scanVars
           ELSE /\ CallModerationScan(content.value)
                /\ request' = [req EXCEPT !.scans = 1]
                /\ UNCHANGED posts
  /\ UNCHANGED <<utilVars, badgeVars, comments, messages>>

\* moderationScan has returned: updatePost answers 400 for REJECT and saves
\* the edit for every other status
UpdatePostResumes ==
  /\ request # None /\ request.op = "updatePost" /\ request.pc = "moderationScan"
  /\ pc[1] = "done"
  /\ IF result[1].status = "REJECT"
       THEN /\ request' = [request EXCEPT !.pc = "responded", !.code = 400]
            /\ UNCHANGED posts
       ELSE UpdatePostSaves(request)
  /\ Consume(1)
  /\ UNCHANGED <<utilVars, badgeVars, comments, messages>>

UpdateNext ==
  \/ CreatePostFrom(CommentedPosts, {"none"}, {"absent"}, {"patient-user"}, {0})
  \/ BadgeFindOne(1)
  \/ BadgeCreate(1)
  \/ CreatePostResponds
  \/ UpdatePost(EditContents, EditedPostIds, ImageCases)
  \/ LookupSettles(1) /\ UNCHANGED <<utilVars, badgeVars, postVars>>
  \/ UpdatePostResumes
  \/ RequestEnds

UpdateSpec == SanitizeInit /\ [][UpdateNext]_vars

-----------------------------------------------------------------------------
(* Moderation review: approveContent, rejectContent, approvePost           *)

\* req.params.type: the three content types and one that is not
ContentTypes == {"post", "comment", "message", "forum"}

\* req.params.id: the first document of a collection, or one that is not stored
ReviewedIds == {1, MaxPosts + 1}

\* the collection of a content type
ModelOf(type) ==
  CASE type = "post"    -> posts
    [] type = "comment" -> comments
    [] type = "message" -> messages

\* await item.save() for an item loaded as old
SaveItem(type, old, new) ==
  CASE type = "post"    -> /\ posts' = (posts \ {old}) \cup {new}
                           /\ UNCHANGED <<comments, messages>>
    [] type = "comment" -> /\ comments' = (comments \ {old}) \cup {new}
                           /\ UNCHANGED <<posts, messages>>
    [] type = "message" -> /\ messages' = (messages \ {old}) \cup {new}
                           /\ UNCHANGED <<posts, comments>>

\* the response of a review operation
Reviewed(op, type, id, code, error) ==
  [ op |-> op, pc |-> "responded", body |-> [type |-> type, id |-> id],
    code |-> code, error |-> error ]

\* approveContent(type, id). moderation is a Mixed path that the handler
\* changes in place without markModified: persisted tells whether save()
\* writes the new status.
ApproveContent ==
  /\ request = None
  /\ \E type \in ContentTypes, id \in ReviewedIds, persisted \in BOOLEAN :
       IF type \notin {"post", "comment", "message"}
         THEN /\ request' = Reviewed("approveContent", type, id, 400, "Invalid content type")
              /\ UNCHANGED <<posts, comments, messages>>
       ELSE IF ~\E item \in ModelOf(type) : item.id = id
         THEN /\ request' = Reviewed("approveContent", type, id, 404, "Content not found")
              /\ UNCHANGED <<posts, comments, messages>>
       ELSE LET item == CHOOSE i \in ModelOf(type) : i.id = id
            IN  IF item.moderation.status # "QUARANTINE"
                  THEN /\ ~persisted
                       /\ request' = Reviewed("approveContent", type, id, 400,
                                               "Content is not quarantined")
                       /\ UNCHANGED <<posts, comments, messages>>
                  ELSE /\ SaveItem(type, item,
                                   [item EXCEPT !.visible = TRUE,
                                                !.moderation.status =
                                                   IF persisted THEN "ALLOW" ELSE @])
                       /\ request' = Reviewed("approveContent", type, id, 200, "")
  /\ UNCHANGED <<scanVars, utilVars, badgeVars>>

\* rejectContent(type, id): removed is a path of the Post and Comment schemas,
\* not of the Message schema; the status is changed in place as in approveContent
RejectContent ==
  /\ request = None
  /\ \E type \in ContentTypes, id \in ReviewedIds, persisted \in BOOLEAN :
       IF type \notin {"post", "comment", "message"}
         THEN /\ ~persisted
              /\ request' = Reviewed("rejectContent", type, id, 400, "Invalid content type")
              /\ UNCHANGED <<posts, comments, messages>>
       ELSE IF ~\E item \in ModelOf(type) : item.id = id
         THEN /\ ~persisted
              /\ request' = Reviewed("rejectContent", type, id, 404, "Content not found")
              /\ UNCHANGED <<posts, comments, messages>>
       ELSE LET item     == CHOOSE i \in ModelOf(type) : i.id = id
                rejected == [item EXCEPT !.moderation.status =
                                            IF persisted THEN "REJECT" ELSE @]
            IN  /\ SaveItem(type, item,
                            IF type = "message" THEN rejected
                            ELSE [rejected EXCEPT !.removed = TRUE])
                /\ request' = Reviewed("rejectContent", type, id, 200, "")
  /\ UNCHANGED <<scanVars, utilVars, badgeVars>>

\* approvePost(id): the report flag is cleared and the status set to ALLOW,
\* with markModified('moderation')
ApprovePost ==
  /\ request = None
  /\ \E id \in ReviewedIds :
       IF ~\E post \in posts : post.id = id
         THEN /\ request' = Reviewed("approvePost", "post", id, 404, "Post not found")
              /\ UNCHANGED posts
         ELSE LET post == CHOOSE p \in posts : p.id = id
              IN  /\ posts' = (posts \ {post}) \cup
                                {[post EXCEPT !.reported = FALSE,
                                              !.moderation.status = "ALLOW"]}
                  /\ request' = Reviewed("approvePost", "post", id, 200, "")
  /\ UNCHANGED <<scanVars, utilVars, badgeVars, comments, messages>>

\* Post.find, Comment.find and Message.find of getQuarantinedContent
QuarantineQueue ==
  {p \in posts : p.moderation.status = "QUARANTINE" /\ ~p.removed}
    \cup {k \in comments : k.moderation.status = "QUARANTINE" /\ ~k.removed}
    \cup {m \in messages : m.moderation.status = "QUARANTINE"}

\* the content of the posts, comments and messages under review
ReviewedPosts == {"hate"}

ReviewedTexts == {[type |-> "string", value |-> v] : v \in {"nice", "555-123-4567"}}

ReviewNext ==
  \/ CreatePostFrom(ReviewedPosts, {"none"}, {"absent"}, {"patient-user"},
                    {CommentsCount("user-1")})
  \/ CreatePostResponds
  \/ AddPostComment(ReviewedTexts, {1}, {"patient-user"})
  \/ LookupSettles(1) /\ UNCHANGED <<utilVars, badgeVars, postVars>>
  \/ AddPostCommentResumes
  \/ AddPostCommentResponds
  \/ BadgeFindOne(1)
  \/ BadgeCreate(1)
  \/ SendMessage(ReviewedTexts)
  \/ SendMessageResumes
  \/ ApproveContent
  \/ RejectContent
  \/ ApprovePost
  \/ RequestEnds

ReviewSpec == SanitizeInit /\ [][ReviewNext]_vars

-----------------------------------------------------------------------------
(* Properties                                                              *)

\* the call has returned
Returned(c) == pc[c] = "done"

\* the call was made with a non-empty string as text
CalledWithText(c) == input[c].text.type = "string" /\ input[c].text.value # ""

ScoreNames ==
  {"phi_score", "spam_score", "sales_pitch_score", "toxicity_score", "link_risk_score",
   "user_trust_score"}

\* The decision cascade as the specification words it: rule k of seven.
RuleMatches(k, sc) ==
  CASE k = 1 -> sc.toxicity_score > 0
    [] k = 2 -> sc.phi_score > 500
    [] k = 3 -> sc.sales_pitch_score > 700 /\ sc.user_trust_score < 500
    [] k = 4 -> sc.spam_score > 700
    [] k = 5 -> \/ sc.phi_score > 200 /\ sc.link_risk_score > 400
                \/ sc.spam_score > 400 /\ sc.sales_pitch_score > 500
    [] k = 6 -> sc.phi_score > 200 \/ sc.spam_score > 300 \/ sc.link_risk_score > 500
    [] k = 7 -> TRUE

RuleVerdicts ==
  <<"REJECT", "QUARANTINE", "REJECT", "QUARANTINE", "QUARANTINE", "SOFT_BLOCK", "ALLOW">>

\* the first rule, from the top, that matches
FirstRule(sc) == MinOf({k \in 1..7 : RuleMatches(k, sc)})

\* C1: for every valid text the status scan returns is the verdict of the
\* first of the seven cascade rules, taken top to bottom with strict
\* comparisons, that matches the score vector of that same result.
C1_CascadeFirstMatch ==
  \A c \in Calls :
    Returned(c) /\ CalledWithText(c)
      => result[c].status = RuleVerdicts[FirstRule(result[c].scores)]

\* C1 witness: a valid text decided by rule 5 (no earlier rule matches)
C1_Witness ==
  \E c \in Calls :
    /\ Returned(c) /\ CalledWithText(c)
    /\ FirstRule(result[c].scores) = 5
    /\ result[c].status = "QUARANTINE"

\* C2: whenever toxicity_score > 0 in a result, its status is REJECT, whatever
\* the other five scores are.
C2_ToxicityRejects ==
  \A c \in Calls :
    Returned(c) /\ result[c].scores.toxicity_score > 0 => result[c].status = "REJECT"

\* C2 witness: a toxic text whose PHI score alone would quarantine it
C2_Witness ==
  \E c \in Calls :
    /\ Returned(c)
    /\ result[c].scores.toxicity_score > 0
    /\ result[c].scores.phi_score > 500
    /\ result[c].status = "REJECT"

\* C3: for every input, valid or not, with or without userId, whatever the
\* lookup does, each of the six scores of the result lies in [0.0, 1.0].
C3_ScoresInRange ==
  \A c \in Calls :
    Returned(c) =>
      \A name \in ScoreNames : result[c].scores[name] >= 0 /\ result[c].scores[name] <= 1000

\* C3 witness: a result whose PHI detections add up to more than 1.0, so the
\* cap decided the score
C3_Witness ==
  \E c \in Calls :
    /\ Returned(c) /\ CalledWithText(c)
    /\ Len(frame[c].phiResult.detections) >= 2
    /\ result[c].scores.phi_score = 1000
    /\ result[c].scores.user_trust_score = 899

\* C4: when text is missing, not a string or empty, scan returns (it never
\* suspends) status REJECT, six scores of 0, no flags, no spans and the reason
\* 'Invalid input', having called no detector and no user lookup.
C4_InvalidInputRejected ==
  \A c \in Calls :
    pc[c] # "idle" /\ ~CalledWithText(c) =>
      /\ Returned(c)
      /\ result[c].status = "REJECT"
      /\ \A name \in ScoreNames : result[c].scores[name] = 0
      /\ result[c].flags = <<>>
      /\ result[c].detectedSpans = <<>>
      /\ result[c].reason = "Invalid input"
      /\ calls[c].detectors = 0
      /\ calls[c].lookups = 0

\* C4 witness: scan has returned for the empty string, called with a userId
C4_Witness ==
  \E c \in Calls :
    /\ Returned(c)
    /\ input[c].text = [type |-> "string", value |-> ""]
    /\ input[c].userId # ""

ModerationResultFields ==
  {"status", "scores", "flags", "detectedSpans", "timestamp", "context"}

\* C5: every input, malformed input included, produces a well-formed
\* ModerationResult: the result carries status, scores, flags, detectedSpans,
\* a timestamp and the caller's context.
C5_WellFormedResult ==
  \A c \in Calls :
    Returned(c) =>
      /\ ModerationResultFields \subseteq DOMAIN result[c]
      /\ result[c].context = DefaultContext(input[c].context)

\* C6 as claimed: with a userId whose record does not exist (findById
\* resolves to null), user_trust_score is 0.5.
C6_MissingUserGetsDefault ==
  \A c \in Calls :
    Returned(c) /\ CalledWithText(c) /\ env[c].lookup.kind = "missing"
      => result[c].scores.user_trust_score = 500

\* C6 amended: with a userId whose record does not exist, user_trust_score is
\* the base value 0.7.
C6_MissingUserGetsBase ==
  \A c \in Calls :
    Returned(c) /\ CalledWithText(c) /\ env[c].lookup.kind = "missing"
      => result[c].scores.user_trust_score = 700

\* C6 witness: a call with a userId has returned after findById found no record
C6_Witness ==
  \E c \in Calls :
    /\ Returned(c) /\ CalledWithText(c)
    /\ input[c].userId # ""
    /\ env[c].lookup.kind = "missing"

\* the score vector made of the detector results of the call and a trust score
DetectorScores(c, trust) ==
  [ phi_score         |-> frame[c].phiResult.score,
    spam_score        |-> frame[c].spamResult.score,
    sales_pitch_score |-> frame[c].salesResult.score,
    toxicity_score    |-> frame[c].toxicityResult.score,
    link_risk_score   |-> frame[c].linkResult.score,
    user_trust_score  |-> trust ]

\* C7: without a userId scan uses 0.5 and performs no lookup; with a userId
\* whose lookup raises an error scan still returns, user_trust_score is 0.5
\* and the status is the cascade applied to the detector scores.
C7_NoUserOrLookupError ==
  \A c \in Calls :
    /\ pc[c] # "idle" /\ CalledWithText(c) /\ input[c].userId = ""
         => /\ Returned(c)
            /\ calls[c].lookups = 0
            /\ env[c].lookup.kind = "none"
            /\ result[c].scores.user_trust_score = 500
    /\ Returned(c) /\ CalledWithText(c) /\ env[c].lookup.kind = "error"
         => /\ result[c].scores = DetectorScores(c, 500)
            /\ result[c].status = RuleVerdicts[FirstRule(DetectorScores(c, 500))]
            /\ ModerationResultFields \subseteq DOMAIN result[c]

\* C7 witness: a call whose lookup raised an error has returned a quarantine
C7_Witness ==
  \E c \in Calls :
    /\ Returned(c) /\ CalledWithText(c)
    /\ input[c].userId # ""
    /\ env[c].lookup.kind = "error"
    /\ result[c].status = "QUARANTINE"

\* the detections of the given type that detectPHI produced for the call
DetectionsOfType(c, type) ==
  {k \in DOMAIN frame[c].phiResult.detections : frame[c].phiResult.detections[k].type = type}

\* the sum of weight * matches over the seven pattern families, capped
SevenFamilyScore(text) == MathMin(PhiSum(PHI_PATTERNS(text), 1, 0), 1000)

\* scan ran the detectors for the call while libphonenumber-js was not installed
RanWithoutPhoneLibrary(c) == pc[c] # "idle" /\ CalledWithText(c) /\ ~installed.phone

PhoneShaped(s, i, j) ==
  \E a \in {0, 1}, b \in {0, 1} :
    /\ j = i + 10 + a + b
    /\ AllIn(s, i, 3, Digits)
    /\ a = 1 => CharAt(s, i + 3) \in PhoneSeparators
    /\ AllIn(s, i + 3 + a, 3, Digits)
    /\ b = 1 => CharAt(s, i + 6 + a) \in PhoneSeparators
    /\ AllIn(s, i + 6 + a + b, 4, Digits)

\* s contains a phone-shaped number
ContainsPhoneShape(s) == \E i \in 0..Len(s), j \in 0..Len(s) : PhoneShaped(s, i, j)

\* s contains a phone-shaped number that no letter, digit or underscore touches
ContainsDelimitedPhoneShape(s) ==
  \E i \in 0..Len(s), j \in 0..Len(s) :
    /\ PhoneShaped(s, i, j)
    /\ CharAt(s, i - 1) \notin WordChars
    /\ CharAt(s, j) \notin WordChars

\* the quarantine for PHI that the claim describes
QuarantinedForPhi(c) ==
  /\ result[c].scores.phi_score > 500
  /\ "phi_detected" \in SetOf(result[c].flags)
  /\ result[c].status = "QUARANTINE"

\* C9 as claimed: every text that contains a phone-shaped number and fires no
\* toxicity signal gets phi_score > 0.5, the flag phi_detected and status
\* QUARANTINE, whether or not the validity check accepts the number.
C9_PhoneShapeQuarantined ==
  \A c \in Calls :
    /\ Returned(c) /\ CalledWithText(c)
    /\ ContainsPhoneShape(input[c].text.value)
    /\ result[c].scores.toxicity_score = 0
    => QuarantinedForPhi(c)

\* C9 amended: every text that contains a phone-shaped number standing on
\* its own (not adjacent to a letter, digit or underscore) and fires no
\* toxicity signal gets phi_score > 0.5, the flag phi_detected and status
\* QUARANTINE, whether or not the validity check accepts the number.
C9_DelimitedPhoneShapeQuarantined ==
  \A c \in Calls :
    /\ Returned(c) /\ CalledWithText(c)
    /\ ContainsDelimitedPhoneShape(input[c].text.value)
    /\ result[c].scores.toxicity_score = 0
    => QuarantinedForPhi(c)

\* C9 witness: the library is installed and rejects the number of the text,
\* and the text is quarantined on the phone pattern alone
C9_Witness ==
  \E c \in Calls :
    /\ Returned(c) /\ CalledWithText(c)
    /\ installed.phone
    /\ ContainsDelimitedPhoneShape(input[c].text.value)
    /\ DetectionsOfType(c, "validated_phone") = {}
    /\ result[c].scores.phi_score = 800
    /\ result[c].status = "QUARANTINE"

\* scan has returned for the promotional example and no toxicity signal fired
PromoExampleScanned(c) ==
  /\ Returned(c)
  /\ input[c].text = [type |-> "string", value |-> "BUY NOW!!!!! LIMITED TIME!!!!!"]
  /\ result[c].scores.toxicity_score = 0

\* C10 as claimed: for 'BUY NOW!!!!! LIMITED TIME!!!!!' with no other signal,
\* spam_score > 0, sales_pitch_score > 0 and the status is QUARANTINE or
\* REJECT.
C10_PromoExampleQuarantined ==
  \A c \in Calls :
    PromoExampleScanned(c) =>
      /\ result[c].scores.spam_score > 0
      /\ result[c].scores.sales_pitch_score > 0
      /\ result[c].status \in {"QUARANTINE", "REJECT"}

\* C10 amended: for 'BUY NOW!!!!! LIMITED TIME!!!!!' with no other signal,
\* spam_score is 0.6 and sales_pitch_score is 0.4, so rule 5 does not match
\* (0.4 is not above 0.5) and the status is SOFT_BLOCK: never ALLOW, but below
\* QUARANTINE.
C10_PromoExampleSoftBlocked ==
  \A c \in Calls :
    PromoExampleScanned(c) =>
      /\ result[c].scores.spam_score = 600
      /\ result[c].scores.sales_pitch_score = 400
      /\ result[c].status = "SOFT_BLOCK"

\* C10 witness: the promotional example has been scanned and soft-blocked
C10_Witness ==
  \E c \in Calls : PromoExampleScanned(c) /\ result[c].status = "SOFT_BLOCK"

\* the detectors of the call have run on a non-empty string
DetectorsRan(c) == pc[c] # "idle" /\ CalledWithText(c)

\* signal 1 of the call: the dictionary said the text is profane
Signal1(c) == DictionarySignal(input[c].text.value, env[c].dictionary)

\* signal 2 of the call: a stem matches the normalized text
Signal2(c) == hasObfuscatedProfanity(input[c].text.value)

\* signal 3 of the call: a whole word of the lowercased text is a common profanity
Signal3(c) == hasDirectProfanity(input[c].text.value)

\* C11: detectToxicity is binary: its score is 0 or 1, isProfane is true
\* exactly when the score is 1, and the score is 1 exactly when at least one
\* of the three signals fires.
C11_ToxicityBinary ==
  \A c \in Calls :
    DetectorsRan(c) =>
      /\ frame[c].toxicityResult.score \in {0, 1000}
      /\ frame[c].toxicityResult.isProfane <=> frame[c].toxicityResult.score = 1000
      /\ frame[c].toxicityResult.score = 1000 <=> Signal1(c) \/ Signal2(c) \/ Signal3(c)

\* C11 witness: a text scored 1 on the direct whole-word match alone
C11_Witness ==
  \E c \in Calls :
    /\ DetectorsRan(c)
    /\ ~Signal1(c) /\ ~Signal2(c) /\ Signal3(c)
    /\ frame[c].toxicityResult.score = 1000

\* C12: when the profanity dictionary is absent or its isProfane call throws,
\* detectToxicity still returns, and its result is 1 exactly when signal 2 or
\* signal 3 fires.
C12_DictionaryOptional ==
  \A c \in Calls :
    /\ pc[c] # "idle" /\ CalledWithText(c) /\ env[c].dictionary \in {"absent", "throws"}
    => /\ DOMAIN frame[c].toxicityResult = {"score", "isProfane"}
       /\ frame[c].toxicityResult.score = 1000 <=> Signal2(c) \/ Signal3(c)
       /\ frame[c].toxicityResult.score = 0 <=> ~(Signal2(c) \/ Signal3(c))

\* C12 witness: isProfane threw and the text was still scored 1; or the
\* dictionary is absent and its fallback word list hit
C12_Witness ==
  \E c \in Calls :
    /\ DetectorsRan(c)
    /\ frame[c].toxicityResult.score = 1000
    /\ \/ env[c].dictionary = "throws"
       \/ env[c].dictionary = "absent" /\ FallbackIsProfane(input[c].text.value)

\* the obfuscated variants the specification and the doc comment name
ObfuscatedVariants == {"f u c k", "f4ck", "sh1t", "f*ck", "f0ck"}

\* C13: each of 'f u c k', 'f4ck', 'sh1t', 'f*ck', 'f0ck' yields
\* toxicity_score = 1.0 through normalization and stem match, even when the
\* dictionary is absent or answers false.
C13_ObfuscatedVariantsDetected ==
  \A c \in Calls :
    /\ DetectorsRan(c)
    /\ input[c].text.value \in ObfuscatedVariants
    /\ env[c].dictionary \in {"absent", "clean"}
    => /\ Signal2(c)
       /\ frame[c].toxicityResult.score = 1000

\* the flags the thresholds give for a score vector
ExpectedFlags(sc) ==
  {f \in {"phi_detected", "spam_detected", "sales_pitch", "toxicity", "suspicious_links"} :
     \/ f = "phi_detected" /\ sc.phi_score > 300
     \/ f = "spam_detected" /\ sc.spam_score > 500
     \/ f = "sales_pitch" /\ sc.sales_pitch_score > 600
     \/ f = "toxicity" /\ sc.toxicity_score > 0
     \/ f = "suspicious_links" /\ sc.link_risk_score > 600}

\* C16: for every valid text the flags are exactly those the five thresholds
\* give for the scores of the result (each at most once), whatever the status.
C16_FlagsFromScores ==
  \A c \in Calls :
    Returned(c) /\ CalledWithText(c) =>
      /\ SetOf(result[c].flags) = ExpectedFlags(result[c].scores)
      /\ Len(result[c].flags) = Cardinality(ExpectedFlags(result[c].scores))

\* C16 witness: a rejected text that carries the PHI flag next to the
\* toxicity flag
C16_Witness ==
  \E c \in Calls :
    /\ Returned(c) /\ CalledWithText(c)
    /\ result[c].status = "REJECT"
    /\ result[c].flags = <<"phi_detected", "toxicity">>

\* C14: sanitize is idempotent: sanitizing a sanitized text changes nothing.
C14_SanitizeIdempotent ==
  sanitizer.kind = "twice" => sanitizer.again = sanitizer.cleaned

\* C14 witness: a text that sanitizeInput changed, and did not empty, has
\* been sanitized twice
C14_Witness ==
  /\ sanitizer.kind = "twice"
  /\ sanitizer.cleaned # sanitizer.text
  /\ sanitizer.cleaned # ""
  /\ includes(sanitizer.text, "<")

\* the number of "<" in s
CountOpenAngles(s) == Cardinality({k \in 0..(Len(s) - 1) : CharAt(s, k) = "<"})

\* s is prefix + '<tag>' + body + '</tag>' + suffix with no '<' in prefix,
\* body and suffix
IsSingleBlock(s, tag) ==
  /\ CountOpenAngles(s) = 2
  /\ indexOf(s, "<" \o tag \o ">") # -1
  /\ indexOf(s, "</" \o tag \o ">") > indexOf(s, "<" \o tag \o ">")

BlockPrefix(s, tag) == Substring(s, 0, indexOf(s, "<" \o tag \o ">"))

BlockBody(s, tag) ==
  Substring(s, indexOf(s, "<" \o tag \o ">") + Len(tag) + 2, indexOf(s, "</" \o tag \o ">"))

BlockSuffix(s, tag) == Substring(s, indexOf(s, "</" \o tag \o ">") + Len(tag) + 3, Len(s))

\* C15: for prefix, body and suffix without '<', sanitize(prefix + '<script>'
\* + body + '</script>' + suffix) is prefix + suffix trimmed, and the same for
\* 'style': neither the tags nor the body survive.
C15_BlocksRemoved ==
  \A tag \in BlockTags :
    sanitizer.kind \in {"once", "twice"} /\ IsSingleBlock(sanitizer.text, tag)
      => sanitizer.cleaned = trim(BlockPrefix(sanitizer.text, tag) \o BlockSuffix(sanitizer.text, tag))

\* C15 witness: a script block with a body, between a prefix and a suffix that
\* do not trim away
C15_Witness ==
  /\ sanitizer.kind = "once"
  /\ IsSingleBlock(sanitizer.text, "script")
  /\ BlockBody(sanitizer.text, "script") # ""
  /\ sanitizer.cleaned # ""

\* C17: in every result of the pre-submission analyzer, categories holds
\* 'bad_words' iff badWordHits is non-empty, 'promotion' iff promoHits is,
\* 'spam' iff spamHits is, 'phi' iff phiDetections is, nothing else and nothing
\* twice, and alertRequired is true exactly when categories is non-empty.
C17_CategoriesFromHits ==
  precheck.kind = "result" =>
    LET r == precheck.result
        expected == {t \in {"bad_words", "promotion", "spam", "phi"} :
                       \/ t = "bad_words" /\ r.badWordHits # <<>>
                       \/ t = "promotion" /\ r.promoHits # <<>>
                       \/ t = "spam" /\ r.spamHits # <<>>
                       \/ t = "phi" /\ r.phiDetections # <<>>}
    IN  /\ SetOf(r.categories) = expected
        /\ Len(r.categories) = Cardinality(expected)
        /\ r.alertRequired <=> r.categories # <<>>

\* C17 witness: a result with a promotional hit and a PHI detection
C17_Witness ==
  /\ precheck.kind = "result"
  /\ precheck.result.categories = <<"promotion", "phi">>
  /\ precheck.result.alertRequired

\* what the call would return had it run alone with its text, its capability
\* answers and its lookup outcome
AloneResult(c) ==
  ScanResult(input[c].text.value, DefaultContext(input[c].context),
             DetectorResults(input[c].text.value,
                             [installed |-> installed.phone, verdict |-> env[c].phone],
                             env[c].dictionary),
             IF input[c].userId = "" THEN 500 ELSE getUserTrustScore(env[c].lookup))

\* C18: when several scan calls interleave at their suspension point, each
\* call returns exactly the status, scores, flags and spans it would return
\* if it ran alone with the same text and the same lookup outcome.
C18_CallsIndependent ==
  \A c \in Calls :
    Returned(c) /\ CalledWithText(c) =>
      /\ result[c].status = AloneResult(c).status
      /\ result[c].scores = AloneResult(c).scores
      /\ result[c].flags = AloneResult(c).flags
      /\ result[c].detectedSpans = AloneResult(c).detectedSpans

\* C18 witness: two calls that both went through the lookup hold their
\* results at once, for different texts and with different verdicts
C18_Witness ==
  \E c \in Calls, d \in Calls :
    /\ c # d
    /\ Returned(c) /\ Returned(d)
    /\ input[c].userId # "" /\ input[d].userId # ""
    /\ input[c].text.value = "sh1t" /\ input[d].text.value = "12345"
    /\ result[c].status = "REJECT" /\ result[d].status = "SOFT_BLOCK"

\* C19: after any sequence of awardBadge and checkForBadges calls, calls that
\* overlap in time included, the badge store holds at most one badge per
\* (userId, type), and the badges a call returns are badges of the store that
\* no other call returns.
C19_BadgesNeverDuplicated ==
  /\ \A b1 \in badges, b2 \in badges :
       b1.userId = b2.userId /\ b1.type = b2.type => b1 = b2
  /\ \A c \in Calls :
       award[c] # None =>
         /\ SetOf(award[c].earned) \subseteq badges
         /\ \A d \in Calls \ {c} :
              award[d] # None =>
                \A j \in DOMAIN award[c].earned, k \in DOMAIN award[d].earned :
                  ~( /\ award[c].earned[j].userId = award[d].earned[k].userId
                     /\ award[c].earned[j].type = award[d].earned[k].type )

\* scan rejects the content whatever the capabilities answer: a stem or a
\* whole word of it is profane
ScanRejects(content) == detectToxicity(content, "clean").score > 0

\* C20: createPost never stores a post unless scan has been run on its
\* content and did not return a blocking verdict: a post whose text scan
\* classifies as REJECT is not stored, even when the author confirmed.
C20_ScanGatesStore ==
  /\ \A p \in posts : ~ScanRejects(p.content)
  /\ request # None /\ request.pc = "checkForBadges" => request.scans > 0

\* a handler is about to resume with the verdict scan returned for its text
ScanVerdictPending ==
  request # None /\ request.pc = "moderationScan" /\ pc[1] = "done"

\* C21: a comment or a text message is persisted only if scan returned ALLOW
\* for its text: on REJECT, QUARANTINE and SOFT_BLOCK the request ends with
\* 400 and no record is created, so every stored comment and message has
\* moderation.status ALLOW.
C21_OnlyAllowedPersisted ==
  /\ [](\A k \in comments \cup messages : k.moderation.status = "ALLOW")
  /\ [][ ScanVerdictPending /\ result[1].status # "ALLOW" /\ request' # request
           => /\ request'.pc = "responded" /\ request'.code = 400
              /\ comments' = comments /\ messages' = messages ]_vars
  /\ [][ comments' # comments \/ (messages' # messages /\ trim(request'.content) # "")
           => ScanVerdictPending /\ result[1].status = "ALLOW" ]_vars

\* a comment is stored, and a message that scan quarantined was answered 400
C21_Witness ==
  /\ comments # {}
  /\ messages = {}
  /\ request # None /\ request.op = "sendMessage" /\ request.pc = "responded"
  /\ request.code = 400 /\ request.error = "content_quarantined"

\* createPost is called with content that is not empty after sanitizing and
\* with no group, or a group the author may post in
CreatePostCalled ==
  /\ request = None /\ request' # None /\ request'.op = "createPost"
  /\ request'.body.content.type = "string"
  /\ sanitizeInput(request'.body.content.value) # ""
  /\ request'.body.group \in {"none", "member"}

RECURSIVE FamilySum(_, _)
\* the sum over the pattern families of weight x number of matches
FamilySum(patterns, k) ==
  IF k > Len(patterns) THEN 0
  ELSE patterns[k].weight * Len(patterns[k].matches) + FamilySum(patterns, k + 1)

\* the phone-shaped matches of the text of call c that the validity check accepts
AcceptedPhones(c) ==
  LET phoneMatches == PhoneMatches(input[c].text.value)
  IN  { k \in 1..Len(phoneMatches) :
          isValidPhoneNumber([installed |-> installed.phone, verdict |-> env[c].phone],
                             phoneMatches[k]) = "valid" }

\* C23: phi_score is min(1, the sum over the seven families of weight x
\* matches, plus 0.9 for each phone-shaped match the validity check accepts):
\* an accepted phone counts in the phone family and in the bonus, and a check
\* that throws adds nothing for its candidate and does not end the detection.
C23_PhiScoreFormula ==
  \A c \in Calls :
    DetectorsRan(c) =>
      /\ Len(PHI_PATTERNS(input[c].text.value)) = 7
      /\ frame[c].phiResult.score =
           MathMin(FamilySum(PHI_PATTERNS(input[c].text.value), 1)
                     + 900 * Cardinality(AcceptedPhones(c)), 1000)
      /\ Cardinality(DetectionsOfType(c, "validated_phone")) = Cardinality(AcceptedPhones(c))

\* the library throws for the first of two candidates and accepts the second,
\* which is counted
C23_Witness ==
  \E c \in Calls :
    /\ DetectorsRan(c) /\ installed.phone
    /\ LET phoneMatches == PhoneMatches(input[c].text.value)
       IN  /\ Len(phoneMatches) = 2
           /\ env[c].phone[phoneMatches[1]] = "throws"
           /\ env[c].phone[phoneMatches[2]] = "valid"
    /\ Cardinality(DetectionsOfType(c, "validated_phone")) = 1
    /\ frame[c].phiResult.score = 1000

\* the library throws for the only candidate: the phone family alone is counted
C23_ThrowAddsNothing ==
  \E c \in Calls :
    /\ DetectorsRan(c) /\ installed.phone
    /\ LET phoneMatches == PhoneMatches(input[c].text.value)
       IN  Len(phoneMatches) = 1 /\ env[c].phone[phoneMatches[1]] = "throws"
    /\ frame[c].phiResult.score = 800

\* the letter a leetspeak character stands for; any other character is itself
LeetLetter(ch) ==
  IF \E k \in DOMAIN LeetReplacements : LeetReplacements[k][1] = ch
    THEN LeetReplacements[CHOOSE k \in DOMAIN LeetReplacements : LeetReplacements[k][1] = ch][2]
    ELSE ch

RECURSIVE EachLeetReplaced(_)
EachLeetReplaced(s) ==
  IF Len(s) = 0 THEN ""
  ELSE LeetLetter(SubSeq(s, 1, 1)) \o EachLeetReplaced(SubSeq(s, 2, Len(s)))

\* the normalized string in which every occurrence of a leetspeak character,
\* '!' and '@' among them, appears as its letter
EveryLeetSubstituted(text) ==
  CollapseRepeats(
    EachLeetReplaced(RemoveChars(toLowerCase(text), Separators \ {"!", "@"})), 0)

\* C24: the normalization applies every listed leetspeak substitution: each
\* occurrence of 0,1,3,4,5,7,8,9,$,!,@ appears as o,i,e,a,s,t,b,g,s,i,a in the
\* normalized string, before runs of 3 or more are collapsed to 2.
C24_EveryLeetSubstituted ==
  \A c \in Calls :
    DetectorsRan(c) =>
      normalizeTextForDetection(input[c].text.value) = EveryLeetSubstituted(input[c].text.value)

\* the pattern occurs at position i of the normalized string s
StemAt(s, pattern, i) == StartsWithAt(s, pattern, i)

\* an occurrence of the pattern with no alphanumeric character directly
\* before it and none directly after it
StandaloneAt(s, pattern, i) ==
  /\ StemAt(s, pattern, i)
  /\ ~(i > 0 /\ IsLowerAlnum(CharAt(s, i - 1)))
  /\ ~(i + Len(pattern) < Len(s) /\ IsLowerAlnum(CharAt(s, i + Len(pattern))))

\* C25: in the normalized stem match a stem of length <= 3 is a hit only
\* when it is standalone (an occurrence with an alphanumeric character
\* directly before or after it, as 'ass' in 'class', never fires the signal),
\* and a stem of length >= 4 is a hit on any occurrence.
C25_ShortStemsStandalone ==
  \A c \in Calls :
    DetectorsRan(c) =>
      LET s == normalizeTextForDetection(input[c].text.value)
          positions == 0..Len(s)
      IN  Signal2(c) <=>
            \E pattern \in profanityPatterns, i \in positions :
              IF Len(pattern) <= 3 THEN StandaloneAt(s, pattern, i) ELSE StemAt(s, pattern, i)

\* what scan returns for the text and the capability answers of call c when
\* no userId is given
AuthorlessResult(c) ==
  ScanResult(input[c].text.value, DefaultContext(input[c].context), frame[c], 500)

\* C26: the status and the flags scan returns do not depend on the author:
\* for valid text every userId and every outcome of the user lookup give the
\* status and flags of a call without userId, because user_trust_score is
\* never below 0.5; the status is REJECT exactly when toxicity_score > 0.
C26_VerdictIgnoresAuthor ==
  \A c \in Calls :
    Returned(c) /\ CalledWithText(c) =>
      /\ result[c].scores.user_trust_score >= 500
      /\ result[c].status = AuthorlessResult(c).status
      /\ result[c].flags = AuthorlessResult(c).flags
      /\ result[c].status = "REJECT" <=> result[c].scores.toxicity_score > 0

\* a sales pitch above 0.7 without toxicity or PHI, by the author of a new
\* account: the status is that of the later rules
C26_Witness ==
  \E c \in Calls :
    /\ Returned(c) /\ CalledWithText(c)
    /\ input[c].userId # "" /\ env[c].lookup.kind = "found" /\ env[c].lookup.ageDays = 30
    /\ result[c].scores.sales_pitch_score > 700
    /\ result[c].scores.toxicity_score = 0
    /\ result[c].scores.phi_score <= 500
    /\ result[c].status = "QUARANTINE"

Severity(status) ==
  CASE status = "ALLOW"      -> 0
    [] status = "SOFT_BLOCK" -> 1
    [] status = "QUARANTINE" -> 2
    [] status = "REJECT"     -> 3

RiskScores ==
  {"toxicity_score", "phi_score", "spam_score", "sales_pitch_score", "link_risk_score"}

\* every risk score call c returned is at most the one call d returned
NoRiskier(c, d) ==
  /\ Returned(c) /\ CalledWithText(c)
  /\ Returned(d) /\ CalledWithText(d)
  /\ \A n \in RiskScores : result[c].scores[n] <= result[d].scores[n]

\* C27: over the score vectors scan produces the verdict is monotone in risk:
\* when every one of the toxicity, PHI, spam, sales-pitch and link-risk scores
\* of one text is at most that of another, the first status is not more
\* severe in the order ALLOW < SOFT_BLOCK < QUARANTINE < REJECT.
C27_VerdictMonotone ==
  \A c, d \in Calls :
    NoRiskier(c, d) => Severity(result[c].status) <= Severity(result[d].status)

\* two returned calls, the first with lower scores and a less severe status,
\* by authors of different trust
C27_Witness ==
  \E c, d \in Calls :
    /\ NoRiskier(c, d)
    /\ result[c].scores.spam_score < result[d].scores.spam_score
    /\ result[c].scores.user_trust_score < result[d].scores.user_trust_score
    /\ result[c].status = "SOFT_BLOCK" /\ result[d].status = "QUARANTINE"

\* the text of call c contains 'http' or 'www.', in any case
MentionsLink(c) ==
  \/ includes(toLowerCase(input[c].text.value), "http")
  \/ includes(toLowerCase(input[c].text.value), "www.")

\* C28: a text that contains 'http' or 'www.' anywhere, in any case, gets
\* spam_score >= 0.5 and is never given the status ALLOW, even when
\* link_risk_score is below every link threshold.
C28_LinkNeverAllowed ==
  \A c \in Calls :
    DetectorsRan(c) /\ MentionsLink(c) =>
      /\ frame[c].spamResult.score >= 500
      /\ Returned(c) => result[c].status # "ALLOW"

\* a text with one plain link, a link risk below 0.4 and no other signal is
\* soft-blocked
C28_Witness ==
  \E c \in Calls :
    /\ Returned(c) /\ CalledWithText(c) /\ MentionsLink(c)
    /\ result[c].scores.link_risk_score > 0
    /\ result[c].scores.link_risk_score <= 400
    /\ result[c].scores.spam_score = 500
    /\ result[c].scores.phi_score = 0
    /\ result[c].status = "SOFT_BLOCK"

\* updatePost sends its response to an edit of a stored post by its author
\* with content that is a string
EditAnswered ==
  /\ request' # None /\ request'.op = "updatePost" /\ request'.pc = "responded"
  /\ request' # request
  /\ request'.body.content.type = "string"
  /\ \E p \in posts : p.id = request'.body.postId /\ p.authorId = request'.body.userId

\* scan has returned REJECT to the handler
ScanRejected == ScanVerdictPending /\ result[1].status = "REJECT"

\* C29: updatePost blocks an edit only when userConfirmedModeration is falsy
\* and scan returns REJECT for the new content, and then leaves the stored
\* post unchanged; in every other case (another verdict, or a confirmed edit,
\* for which scan is not called) the content is replaced by the sanitized
\* new content.
C29_EditBlockedOnlyOnReject ==
  [][ EditAnswered =>
        IF ScanRejected
          THEN /\ ~request'.body.userConfirmedModeration
               /\ request'.code = 400
               /\ posts' = posts
          ELSE /\ request'.code = 200
               /\ request'.body.userConfirmedModeration => request'.scans = 0
               /\ \E p \in posts, q \in posts' :
                    /\ p.id = request'.body.postId /\ q.id = p.id
                    /\ q.content = sanitizeInput(request'.body.content.value)
                    /\ posts' = (posts \ {p}) \cup {q} ]_vars

\* an edit that scan quarantines, sent without the confirmation, is saved
C29_Witness ==
  /\ request # None /\ request.op = "updatePost" /\ request.pc = "responded"
  /\ request.code = 200
  /\ ~request.body.userConfirmedModeration /\ request.scans = 1
  /\ request.body.content.value = "Call me at 555-123-4567"
  /\ \E p \in posts : p.id = request.body.postId /\ p.content = "Call me at 555-123-4567"
                        /\ p.updatedAt = "edited"

\* the posts, comments and messages that are stored
StoredContent == posts \cup comments \cup messages

\* C30: QUARANTINE is never a stored moderation status: after any sequence of
\* createPost, addPostComment, sendMessage, approveContent, rejectContent and
\* approvePost every stored post, comment and message has a status in
\* {ALLOW, PENDING_REVIEW, REJECT}, approveContent answers 'Content is not
\* quarantined' for every item it finds, and the quarantine queue is empty.
C30_QuarantineNeverStored ==
  /\ \A item \in StoredContent : item.moderation.status \in {"ALLOW", "PENDING_REVIEW", "REJECT"}
  /\ QuarantineQueue = {}
  /\ request # None /\ request.op = "approveContent" /\ request.code \notin {400, 404}
       => FALSE
  /\ request # None /\ request.op = "approveContent"
       /\ request.body.type \in {"post", "comment", "message"}
       /\ (\E item \in ModelOf(request.body.type) : item.id = request.body.id)
       => request.code = 400 /\ request.error = "Content is not quarantined"

\* a post pending review, a comment and a message are stored, and
\* approveContent has refused the post
C30_Witness ==
  /\ \E p \in posts : p.moderation.status = "PENDING_REVIEW"
  /\ \E k \in comments : k.moderation.status = "REJECT"
  /\ messages # {}
  /\ request # None /\ request.op = "approveContent" /\ request.body.type = "post"
  /\ request.error = "Content is not quarantined"

====
